---- MODULE Spec2Model ----
(***************************************************************************)
(* Job registry of the multi-user enroller (src/src/multi_user_state.rs):  *)
(* MultiUserState keeps a map  jobs : job id -> running UserJob  behind a  *)
(* tokio RwLock; create_job / start_job / stop_job / get_job_status /      *)
(* delete_job are async functions called concurrently by the HTTP          *)
(* handlers, and every started job runs run_monitoring_loop as a spawned   *)
(* task.  Every `.await` of those functions is a point where another task  *)
(* may run, so each action below is the code between two awaits.           *)
(* The single-user server (src/src/web_main.rs) is a separate binary whose *)
(* JobManager (src/src/job_manager.rs) starts and stops one loop.          *)
(***************************************************************************)
EXTENDS Naturals, Integers, Sequences, FiniteSets, TLC

\* ---------------------------------------------------------------- bounds
MaxJobs == 1        \* job rows the database ever allocates
MaxRuntimes == 2    \* UserJob values start_job ever constructs
MaxChecks == 1      \* completed sweeps (total_checks) a runtime is followed for
MaxSeats == 5       \* largest seat count a reading reports and largest threshold
MaxAttempts == 2    \* cycles reaching the action (enrollment_attempts) followed
MaxCalls == 6       \* try_enroll_with_retry results the failure tracker is followed for
MaxDay == 2         \* calendar days the local clock advances through
MaxRefresh == 2     \* session-refresh checks a loop is followed for
MaxPolls == 2       \* target cycles the single-state loops are followed for
MaxTargets == 3     \* targets (lectures and discussions) a sweep goes through
MaxSweeps == 2      \* sweeps one runtime's targets are followed for

\* config.rs: pub const DEFAULT_RETRY_ATTEMPTS: u32 = 3
DEFAULT_RETRY_ATTEMPTS == 3

JobIds == 1..MaxJobs
Callers == {"c1", "c2"}      \* concurrent HTTP handler tasks
Users == {"u1", "u2"}        \* tenants (user_id)
Owners == {"u1"}             \* tenants are interchangeable: u1 creates the jobs

VARIABLES
    nJobs,       \* job ids the database has handed out (ids are never reused)
    dbJobs,      \* table jobs: job id -> [owner, active, connected]
    dbTargets,   \* job ids that have their courses/sections rows
    dbStats,     \* table enrollment_stats: job id -> stats row
    jobs,        \* MultiUserState.jobs: job id -> runtime handle (index of rt)
    rt,          \* every UserJob constructed so far, with its loop task
    call,        \* per caller: the registry call it is executing / has returned from
    jm,          \* the JobManager of the single-user server and its loop task
    cli,         \* the command-line monitor (main.rs): its loop and the AppState lock
    poll,        \* one job's seat threshold and the poll cycle of one of its targets
    section_failures,  \* EnrollmentStats.section_failures: key -> [count, last_failure]
    today,       \* Local::now().date_naive(), as a day number
    streak,      \* per key: day and results of the should_notify calls made since
                 \* the key last had no entry, while they all fall on one day
    lastcall,    \* the last result try_enroll_with_retry handled, and the entry before it
    prevcall,    \* the one before that
    vault,       \* a job row's cookie_encrypted and encryption_nonce columns, with
                 \* the key, plaintext and nonce of the encrypt call that made them
    opened,      \* the last EncryptionKey::decrypt call and what came of it
    sweep        \* one runtime's sweep over its targets and the stats it keeps

\* The state of the components that the registry calls and the loops use:
\* the registry actions leave it alone.
unitVars == <<poll, section_failures, today, streak, lastcall, prevcall, vault, opened,
              sweep>>

\* The failure tracker of one runtime's stats, and the stored credential.
trackVars == <<section_failures, today, streak, lastcall, prevcall>>
cryptoVars == <<vault, opened>>

\* The state of the registry, the runtimes, the JobManager and the
\* command-line monitor.
regVars == <<nJobs, dbJobs, dbTargets, dbStats, jobs, rt, call, jm, cli>>

vars == <<nJobs, dbJobs, dbTargets, dbStats, jobs, rt, call, jm, cli, poll,
          section_failures, today, streak, lastcall, prevcall, vault, opened, sweep>>

\* ------------------------------------------------------- persisted records
\* Column defaults of a freshly inserted jobs row (is_active, is_connected).
NewJobRow(u) == [owner |-> u, active |-> FALSE, connected |-> FALSE]

\* Column defaults of a freshly inserted enrollment_stats row.
ZeroStats ==
    [total_checks |-> 0, openings_found |-> 0, enrollment_attempts |-> 0,
     successful_enrollments |-> 0, errors |-> 0, section_failures |-> {}]

\* A get_job_by_id whose query has no `AND user_id = $2`.
get_job_by_id_any_user(j, u) == j \in DOMAIN dbJobs

\* db::get_job_by_id: SELECT ... WHERE id = $1 AND user_id = $2
get_job_by_id(j, u) == j \in DOMAIN dbJobs /\ dbJobs[j].owner = u

\* db::update_job_status: UPDATE jobs SET is_active, is_connected WHERE id = $3
\* (no row, no change, no error).
update_job_status(j, a, k) ==
    IF j \in DOMAIN dbJobs
    THEN [dbJobs EXCEPT ![j].active = a, ![j].connected = k]
    ELSE dbJobs

\* f without the key j.
Without(f, j) == [x \in DOMAIN f \ {j} |-> f[x]]

\* f with the key j bound to v (HashMap::insert: an existing entry is replaced).
With(f, j, v) == [x \in DOMAIN f \cup {j} |-> IF x = j THEN v ELSE f[x]]

\* ------------------------------------------------------------ call records
\* op, job, user: the call; pc: where it is suspended; rt: the UserJob handle
\* it holds; res: what it returned; conc: another call on the same job has
\* been in progress at some moment of this call.
IdleCall ==
    [op |-> "none", pc |-> "idle", job |-> 0, user |-> "none", rt |-> 0,
     res |-> "none", conc |-> FALSE]

\* A caller can issue a new call when it is not inside one.
Free(c) == call[c].pc \in {"idle", "ret"}

InFlight(c) == ~Free(c)

\* The callers other than c that are inside a call on job j.
Overlapping(c, j) == {d \in Callers \ {c} : InFlight(d) /\ call[d].job = j}

\* The call records after caller c has entered a call on job j with record r:
\* c and every call on j it overlaps are marked concurrent.
Enter(c, j, r) ==
    [d \in Callers |->
        IF d = c THEN [r EXCEPT !.conc = r.conc \/ Overlapping(c, j) # {}]
        ELSE IF d \in Overlapping(c, j) THEN [call[d] EXCEPT !.conc = TRUE]
        ELSE call[d]]

\* The record of a call that has returned res.
Return(r, res) == [r EXCEPT !.pc = "ret", !.res = res, !.conc = FALSE]

\* ------------------------------------------------------------- the binaries
\* JobManager::new: is_running = false, a broadcast channel with no receiver,
\* around the AppState that AppState::new built (is_connected: true, stats
\* zero).  loop: where the spawned loop task is; pending: a shutdown value its
\* receiver has not yet taken; res: what the last start()/stop() returned;
\* refreshes: refresh_cookie calls made; checked: what the last one found;
\* notices: cookie-expired notifications sent; polls: calls of
\* monitor_section_with_retry made by the sweeps.
NewManager ==
    [built |-> TRUE, is_running |-> FALSE, loop |-> "none", pending |-> FALSE,
     res |-> "none", is_connected |-> TRUE, refreshes |-> 0, checked |-> "none",
     notices |-> 0, polls |-> 0, enrollment_attempts |-> 0]

\* The multi-user server constructs a MultiUserState and no JobManager.
NoManager == [NewManager EXCEPT !.built = FALSE]

\* main.rs: main() builds the AppState and the shutdown channel and spawns
\* run_monitor with the channel's receiver.  loop: where run_monitor is;
\* locked: the third select! branch holds the guard of state.lock();
\* pending: a shutdown value the receiver has not taken; sent: Ctrl-C came;
\* refreshes, checked, notices, polls, enrollment_attempts: as in NewManager.
NewCli ==
    [built |-> TRUE, loop |-> "select", locked |-> FALSE, is_connected |-> TRUE,
     pending |-> FALSE, sent |-> FALSE, refreshes |-> 0, checked |-> "none",
     notices |-> 0, polls |-> 0, enrollment_attempts |-> 0]

\* The web servers do not run run_monitor.
NoCli == [NewCli EXCEPT !.built = FALSE, !.loop = "none"]

\* web_main_multiuser.rs serves the registry calls, web_main.rs the
\* JobManager, main.rs runs the command-line monitor.
MultiUser == ~jm.built /\ ~cli.built

SingleUser == jm.built

\* ---------------------------------------------------------- the poll cycle
\* section keys "{department}_{course_code}_{section}_{term}" of two targets
Keys == {"k1", "k2"}

\* No should_notify call has been made for the key since it last had no entry.
NoStreak == [day |-> -1, res |-> <<>>]

\* No entry of section_failures (HashMap::get returned None).
NoEntry == [count |-> 0, last_failure |-> -1]

\* sent: the notifications the call handed to notifier.send_notification.
NoCall ==
    [n |-> 0, op |-> "none", key |-> "none", res |-> FALSE, before |-> NoEntry,
     sent |-> <<>>]

\* EnrollmentStats::default() on day 0, before any result was handled.
TrackerNew ==
    /\ section_failures = [k \in {} |-> NoEntry]
    /\ today = 0
    /\ streak = [k \in Keys |-> NoStreak]
    /\ lastcall = NoCall
    /\ prevcall = NoCall

\* The section_failures a runtime can start with: EnrollmentStats::default(),
\* or, under start_job, the map read from the stats row, here with the
\* entry of a key that was suppressed on day 0.
StoredFailures ==
    {[k \in {} |-> NoEntry], [k \in {"k1"} |-> [count |-> 3, last_failure |-> 0]]}

\* The tracker of a runtime whose stats were built with the map sf.
TrackerLoaded(sf) ==
    /\ section_failures = sf
    /\ today = 0
    /\ streak = [k \in Keys |-> NoStreak]
    /\ lastcall = NoCall
    /\ prevcall = NoCall

\* Values of the encryption layer.  Byte strings: the bytes of a text
\* (str::as_bytes), the output of Aes256Gcm::encrypt, or other bytes of a
\* given length.  Strings: a text, or the STANDARD base64 of a byte string.
Text(p) == [kind |-> "text", s |-> p]
NoBytes == [kind |-> "raw", id |-> "none", len |-> 0]
NoVault == [made |-> FALSE, ciphertext |-> Text(""), nonce |-> Text(""),
            nonce0 |-> Text(""), key |-> "none", plaintext |-> "", touched |-> "none"]
NoOpened == [key |-> "none", res |-> "none", plaintext |-> "", start |-> "none",
             runtime |-> FALSE]

\* No credential has been stored and decrypt has not been called.
VaultNew == vault = NoVault /\ opened = NoOpened

\* No sweep has run.  i: the target the sweep in progress is at (0: none);
\* pc: the call it awaits; polled: what monitor_section_with_retry returned
\* for the targets of this sweep so far; failed: a call of this sweep ended
\* in a terminal error; ended: how the last sweep ended.
NoSweep ==
    [i |-> 0, pc |-> "none", polled |-> <<>>, failed |-> FALSE, ended |-> "none",
     sweeps |-> 0, total_checks |-> 0, enrollment_attempts |-> 0,
     successful_enrollments |-> 0]

\* No job has been configured and no target is being polled.  stored: the
\* seat threshold kept for the job; thr: the one the cycle in progress was
\* given; tries: monitor_section calls made by the retry wrapper; s1, s2, d1,
\* d2: the two readings of the current monitor_section call and the decisions
\* computed on them; builds: try_enroll calls of the retry wrapper;
\* submits: add_section calls; last: how the last cycle ended; failkind: the
\* kind of the last call that failed in the cycle; act: what add_section
\* returned in the cycle; notified: found-opening notifications the cycle
\* has handed to the notifier; counted, credited: the cycle has incremented
\* enrollment_attempts, successful_enrollments; dropped: the cycle's future
\* was dropped by select!; errors: stats.errors.
NoPoll ==
    [server |-> "none", created |-> FALSE, mode |-> "none", requested |-> 0,
     stored |-> 0, pc |-> "idle", thr |-> 0, tries |-> 0,
     s1 |-> 0, d1 |-> FALSE, s2 |-> 0, d2 |-> FALSE, builds |-> 0,
     enrollment_attempts |-> 0, submits |-> 0, last |-> "none",
     failkind |-> "none", act |-> "none", notified |-> 0, counted |-> FALSE,
     credited |-> FALSE, dropped |-> FALSE, successful_enrollments |-> 0,
     errors |-> 0]

\* ------------------------------------------------------------------- locks
\* A delete_job whose read guard of the contains_key test lives until the
\* stop_job it calls has returned.
ReadHeld_through_delete(c) ==
    \/ call[c].pc \in {"p_lockjob", "t_lockjob"}
    \/ call[c].op = "delete" /\ call[c].pc \in {"d_stop", "p_wlock", "p_db"}

\* tokio RwLock on MultiUserState.jobs.  A read guard is held across an await
\* only by stop_job and get_job_status while they wait for the job's mutex.
ReadHeld(c) == call[c].pc \in {"p_lockjob", "t_lockjob"}

\* A task suspended in jobs.write().await.
WriterWaiting == \E c \in Callers : call[c].pc \in {"s_insert", "p_wlock"}

\* tokio's RwLock is write-preferring: a reader queues behind a waiting writer.
CanRead == ~WriterWaiting

CanWrite == \A c \in Callers : ~ReadHeld(c)

\* tokio Mutex around each UserJob: the loop holds it for a whole sweep.
JobLockFree(r) == rt[r].pc # "sweep"

Init ==
    /\ nJobs = 0
    /\ dbJobs = [j \in {} |-> NewJobRow("u1")]
    /\ dbTargets = {}
    /\ dbStats = [j \in {} |-> ZeroStats]
    /\ jobs = [j \in {} |-> 0]
    /\ rt = <<>>
    /\ call = [c \in Callers |-> IdleCall]
    /\ \E b \in {"multi", "single", "cli"} :
          /\ jm = IF b = "single" THEN NewManager ELSE NoManager
          /\ cli = IF b = "cli" THEN NewCli ELSE NoCli
    /\ poll = NoPoll
    /\ TrackerNew
    /\ VaultNew
    /\ sweep = NoSweep

\* ------------------------------------------------------------- create_job
\* db::create_job: INSERT INTO jobs ... RETURNING *.  The row gets the next id
\* and the column defaults; a failed statement returns the error.
CreateJobRow(c, u, ok) ==
    /\ MultiUser
    /\ Free(c)
    /\ nJobs < MaxJobs
    /\ LET j == nJobs + 1
           r == [IdleCall EXCEPT !.op = "create", !.user = u]
       IN IF ok
          THEN /\ dbJobs' = With(dbJobs, j, NewJobRow(u))
               /\ nJobs' = j
               /\ call' = Enter(c, j, [r EXCEPT !.pc = "c_courses", !.job = j])
          ELSE /\ UNCHANGED <<nJobs, dbJobs>>
               /\ call' = [call EXCEPT ![c] = Return(r, "db_error")]
    /\ UNCHANGED <<unitVars, cli, jm, dbTargets, dbStats, jobs, rt>>

\* db::create_courses and db::create_sections: the rows reference the job row.
CreateCourses(c, ok) ==
    /\ call[c].pc = "c_courses"
    /\ IF ok /\ call[c].job \in DOMAIN dbJobs
       THEN /\ dbTargets' = dbTargets \cup {call[c].job}
            /\ call' = [call EXCEPT ![c].pc = "c_stats"]
       ELSE /\ dbTargets' = dbTargets
            /\ call' = [call EXCEPT ![c] = Return(call[c], "db_error")]
    /\ UNCHANGED <<unitVars, cli, jm, nJobs, dbJobs, dbStats, jobs, rt>>

\* A create_job that returns Ok(job.id) without calling init_job_stats.
CreateStats_no_insert(c, ok) ==
    /\ call[c].pc = "c_stats"
    /\ dbStats' = dbStats
    /\ call' = [call EXCEPT ![c] = Return(call[c], IF ok THEN "ok" ELSE "db_error")]
    /\ UNCHANGED <<unitVars, cli, jm, nJobs, dbJobs, dbTargets, jobs, rt>>

\* db::init_job_stats: INSERT INTO enrollment_stats (job_id) VALUES ($1); then
\* create_job returns Ok(job.id).
CreateStats(c, ok) ==
    /\ call[c].pc = "c_stats"
    /\ IF ok /\ call[c].job \in DOMAIN dbJobs
       THEN /\ dbStats' = With(dbStats, call[c].job, ZeroStats)
            /\ call' = [call EXCEPT ![c] = Return(call[c], "ok")]
       ELSE /\ dbStats' = dbStats
            /\ call' = [call EXCEPT ![c] = Return(call[c], "db_error")]
    /\ UNCHANGED <<unitVars, cli, jm, nJobs, dbJobs, dbTargets, jobs, rt>>

\* -------------------------------------------------------------- start_job
\* The UserJob start_job constructs for job j from the stats row st.
NewUserJob(j, st) ==
    [job |-> j, is_running |-> TRUE, is_connected |-> TRUE,
     total_checks |-> st.total_checks,
     pc |-> "new", pending |-> FALSE, signalled |-> FALSE]

\* Starts that will still construct a UserJob.
StartsAhead == Cardinality({d \in Callers : call[d].pc \in {"s_check", "s_load"}})

\* get_job_by_id(...).await?.ok_or("Job not found")?
StartGet(c, j, u) ==
    /\ MultiUser
    /\ Free(c)
    /\ Len(rt) + StartsAhead < MaxRuntimes
    /\ LET r == [IdleCall EXCEPT !.op = "start", !.job = j, !.user = u]
       IN IF get_job_by_id(j, u)
          THEN call' = Enter(c, j, [r EXCEPT !.pc = "s_check"])
          ELSE call' = [call EXCEPT ![c] = Return(r, "not_found")]
    /\ UNCHANGED <<unitVars, cli, jm, nJobs, dbJobs, dbTargets, dbStats, jobs, rt>>

\* jobs.read().await; contains_key => Err("Job is already running"); the read
\* guard is dropped before anything else is done.
StartCheck(c) ==
    /\ call[c].pc = "s_check"
    /\ CanRead
    /\ IF call[c].job \in DOMAIN jobs
       THEN call' = [call EXCEPT ![c] = Return(call[c], "already_running")]
       ELSE call' = [call EXCEPT ![c].pc = "s_load"]
    /\ UNCHANGED <<unitVars, cli, jm, nJobs, dbJobs, dbTargets, dbStats, jobs, rt>>

\* The cookie is decrypted and the WebRegWrapper built, then courses, sections,
\* settings and stats are read: a failure of any of them (~ok) is returned,
\* and get_job_stats returning no row is Err("Stats not found").  Then the
\* shutdown channel and the UserJob are constructed (is_running: true,
\* is_connected: true).
StartLoad(c, ok) ==
    /\ call[c].pc = "s_load"
    /\ IF ok /\ call[c].job \in DOMAIN dbStats
       THEN /\ rt' = Append(rt, NewUserJob(call[c].job, dbStats[call[c].job]))
            /\ call' = [call EXCEPT ![c].pc = "s_insert", ![c].rt = Len(rt) + 1]
       ELSE /\ rt' = rt
            /\ call' = [call EXCEPT ![c] =
                 Return(call[c], IF ok THEN "stats_not_found" ELSE "load_error")]
    /\ UNCHANGED <<unitVars, cli, jm, nJobs, dbJobs, dbTargets, dbStats, jobs>>

\* jobs.write().await; jobs_write.insert(job_id, user_job.clone())
StartInsert(c) ==
    /\ call[c].pc = "s_insert"
    /\ CanWrite
    /\ jobs' = With(jobs, call[c].job, call[c].rt)
    /\ call' = [call EXCEPT ![c].pc = "s_status"]
    /\ UNCHANGED <<unitVars, cli, jm, nJobs, dbJobs, dbTargets, dbStats, rt>>

\* A start_job that returns Ok(()) without spawning run_monitoring_loop.
StartActivate_no_spawn(c, ok) ==
    /\ call[c].pc = "s_status"
    /\ dbJobs' = IF ok THEN update_job_status(call[c].job, TRUE, TRUE) ELSE dbJobs
    /\ call' = [call EXCEPT ![c] = Return(call[c], IF ok THEN "ok" ELSE "db_error")]
    /\ UNCHANGED <<unitVars, cli, jm, nJobs, dbTargets, dbStats, jobs, rt>>

\* update_job_status(job_id, true, true).await?; tokio::spawn(run_monitoring_loop);
\* Ok(()).  A failed statement returns before the loop is spawned.
StartActivate(c, ok) ==
    /\ call[c].pc = "s_status"
    /\ IF ok
       THEN /\ dbJobs' = update_job_status(call[c].job, TRUE, TRUE)
            /\ rt' = [rt EXCEPT ![call[c].rt].pc = "spawned"]
            /\ call' = [call EXCEPT ![c] = Return(call[c], "ok")]
       ELSE /\ dbJobs' = dbJobs
            /\ rt' = rt
            /\ call' = [call EXCEPT ![c] = Return(call[c], "db_error")]
    /\ UNCHANGED <<unitVars, cli, jm, nJobs, dbTargets, dbStats, jobs>>

\* --------------------------------------------------------------- stop_job
\* shutdown_tx.send(()) on runtime h: a tokio broadcast channel delivers the
\* value to the receivers that exist at the send; with none the send fails and
\* the value is dropped (the error is ignored: `let _ =`).
Send(h) ==
    [rt EXCEPT ![h].signalled = TRUE,
               ![h].pending = rt[h].pending \/ rt[h].pc \in {"select", "sweep", "sleep"}]

\* A stop_job that writes active = false before it returns "Job not running".
StopLookup_persist_first(c, r) ==
    /\ CanRead
    /\ IF r.job \in DOMAIN jobs
       THEN /\ call' = Enter(c, r.job, [r EXCEPT !.pc = "p_lockjob", !.rt = jobs[r.job]])
            /\ dbJobs' = dbJobs
       ELSE /\ call' = [call EXCEPT ![c] = Return(r, "not_running")]
            /\ dbJobs' = update_job_status(r.job, FALSE, FALSE)
    /\ UNCHANGED <<unitVars, cli, jm, nJobs, dbTargets, dbStats, jobs, rt>>

\* jobs.read().await; jobs_read.get(&job_id).ok_or("Job not running")?; the
\* read guard stays held while the job's mutex is awaited.  r is the call
\* record on entry (of a stop_job call, or of the delete_job that calls it).
StopLookup(c, r) ==
    /\ CanRead
    /\ IF r.job \in DOMAIN jobs
       THEN call' = Enter(c, r.job, [r EXCEPT !.pc = "p_lockjob", !.rt = jobs[r.job]])
       ELSE call' = [call EXCEPT ![c] = Return(r, "not_running")]
    /\ UNCHANGED <<unitVars, cli, jm, nJobs, dbJobs, dbTargets, dbStats, jobs, rt>>

StopGet(c, j) ==
    /\ MultiUser
    /\ Free(c)
    /\ StopLookup(c, [IdleCall EXCEPT !.op = "stop", !.job = j])

\* job.lock().await; shutdown_tx.send(()); both guards dropped.
StopSignal(c) ==
    /\ call[c].pc = "p_lockjob"
    /\ JobLockFree(call[c].rt)
    /\ rt' = Send(call[c].rt)
    /\ call' = [call EXCEPT ![c].pc = "p_wlock"]
    /\ UNCHANGED <<unitVars, cli, jm, nJobs, dbJobs, dbTargets, dbStats, jobs>>

\* A stop_job without the jobs_write.remove(&job_id).
StopRemove_no_remove(c) ==
    /\ call[c].pc = "p_wlock"
    /\ CanWrite
    /\ call' = [call EXCEPT ![c].pc = "p_db"]
    /\ UNCHANGED <<unitVars, cli, jm, nJobs, dbJobs, dbTargets, dbStats, jobs, rt>>

\* jobs.write().await; jobs_write.remove(&job_id)
StopRemove(c) ==
    /\ call[c].pc = "p_wlock"
    /\ CanWrite
    /\ jobs' = Without(jobs, call[c].job)
    /\ call' = [call EXCEPT ![c].pc = "p_db"]
    /\ UNCHANGED <<unitVars, cli, jm, nJobs, dbJobs, dbTargets, dbStats, rt>>

\* A stop_job that joins the loop task before it persists and returns.
StopPersist_joined(c, ok) ==
    /\ call[c].pc = "p_db"
    /\ rt[call[c].rt].pc = "done"
    /\ IF ok
       THEN /\ dbJobs' = update_job_status(call[c].job, FALSE, FALSE)
            /\ call' = [call EXCEPT ![c] =
                 IF call[c].op = "delete" THEN [call[c] EXCEPT !.pc = "d_db"]
                 ELSE Return(call[c], "ok")]
       ELSE /\ dbJobs' = dbJobs
            /\ call' = [call EXCEPT ![c] = Return(call[c], "db_error")]
    /\ UNCHANGED <<unitVars, cli, jm, nJobs, dbTargets, dbStats, jobs, rt>>

\* update_job_status(job_id, false, false).await?; Ok(()).  Inside delete_job
\* an Ok continues with the delete and an Err is returned by `?`.
StopPersist(c, ok) ==
    /\ call[c].pc = "p_db"
    /\ IF ok
       THEN /\ dbJobs' = update_job_status(call[c].job, FALSE, FALSE)
            /\ call' = [call EXCEPT ![c] =
                 IF call[c].op = "delete" THEN [call[c] EXCEPT !.pc = "d_db"]
                 ELSE Return(call[c], "ok")]
       ELSE /\ dbJobs' = dbJobs
            /\ call' = [call EXCEPT ![c] = Return(call[c], "db_error")]
    /\ UNCHANGED <<unitVars, cli, jm, nJobs, dbTargets, dbStats, jobs, rt>>

\* --------------------------------------------------------- get_job_status
\* jobs.read().await; jobs_read.get(&job_id)? (None is returned at once); the
\* read guard stays held while the job's mutex is awaited.
StatusGet(c, j) ==
    /\ MultiUser
    /\ Free(c)
    /\ CanRead
    /\ LET r == [IdleCall EXCEPT !.op = "status", !.job = j]
       IN IF j \in DOMAIN jobs
          THEN call' = Enter(c, j, [r EXCEPT !.pc = "t_lockjob", !.rt = jobs[j]])
          ELSE call' = [call EXCEPT ![c] = Return(r, "absent")]
    /\ UNCHANGED <<unitVars, cli, jm, nJobs, dbJobs, dbTargets, dbStats, jobs, rt>>

\* job.lock().await; Some(JobStatusInfo { is_running, is_connected, .., stats }),
\* the fields of the UserJob call[c].rt as they are at this step.
StatusRead(c) ==
    /\ call[c].pc = "t_lockjob"
    /\ JobLockFree(call[c].rt)
    /\ call' = [call EXCEPT ![c] =
         Return(call[c], "some")]
    /\ UNCHANGED <<unitVars, cli, jm, nJobs, dbJobs, dbTargets, dbStats, jobs, rt>>

\* ------------------------------------------------------------- delete_job
\* if self.jobs.read().await.contains_key(&job_id) { self.stop_job(job_id).await?; }
\* The read guard is a temporary of the condition and is dropped with it.
DeleteCheck(c, j, u) ==
    /\ MultiUser
    /\ Free(c)
    /\ CanRead
    /\ call' = Enter(c, j, [IdleCall EXCEPT !.op = "delete", !.job = j, !.user = u,
                                            !.pc = IF j \in DOMAIN jobs THEN "d_stop" ELSE "d_db"])
    /\ UNCHANGED <<unitVars, cli, jm, nJobs, dbJobs, dbTargets, dbStats, jobs, rt>>

\* The stop_job call made by delete_job.
DeleteStop(c) ==
    /\ call[c].pc = "d_stop"
    /\ StopLookup(c, call[c])

\* db::delete_job: DELETE FROM jobs WHERE id = $1 AND user_id = $2, cascading to
\* courses, sections and stats; the bool it returns is discarded.
DeleteRows(c, ok) ==
    /\ call[c].pc = "d_db"
    /\ IF ok
       THEN /\ call' = [call EXCEPT ![c] = Return(call[c], "ok")]
            /\ IF get_job_by_id(call[c].job, call[c].user)
               THEN /\ dbJobs' = Without(dbJobs, call[c].job)
                    /\ dbTargets' = dbTargets \ {call[c].job}
                    /\ dbStats' = Without(dbStats, call[c].job)
               ELSE UNCHANGED <<dbJobs, dbTargets, dbStats>>
       ELSE /\ call' = [call EXCEPT ![c] = Return(call[c], "db_error")]
            /\ UNCHANGED <<dbJobs, dbTargets, dbStats>>
    /\ UNCHANGED <<unitVars, cli, jm, nJobs, jobs, rt>>

\* ---------------------------------------------------- run_monitoring_loop
\* The receiver of the shutdown channel exists from the subscribe() on.
Subscribed(r) == rt[r].pc \in {"select", "sweep", "sleep"}

\* let mut shutdown_rx = { let job_lock = job.lock().await; job_lock.shutdown_tx.subscribe() };
LoopSubscribe(r) ==
    /\ rt[r].pc = "spawned"
    /\ rt' = [rt EXCEPT ![r].pc = "select"]
    /\ UNCHANGED <<unitVars, cli, jm, nJobs, dbJobs, dbTargets, dbStats, jobs, call>>

\* select! branch `shutdown_rx.recv()`: the other branches' futures (a sweep
\* or a sleep in progress) are dropped; is_running = false; break.
LoopRecv(r) ==
    /\ Subscribed(r)
    /\ rt[r].pending
    /\ rt' = [rt EXCEPT ![r].pc = "done", ![r].pending = FALSE, ![r].is_running = FALSE]
    /\ UNCHANGED <<unitVars, cli, jm, nJobs, dbJobs, dbTargets, dbStats, jobs, call>>

\* select! branch `cookie_refresh_timer.tick()`: the branch only logs, and the
\* select! completing drops the sweep or sleep in progress; the loop iterates.
LoopTick(r) ==
    /\ Subscribed(r)
    /\ rt' = [rt EXCEPT ![r].pc = "select"]
    /\ UNCHANGED <<unitVars, cli, jm, nJobs, dbJobs, dbTargets, dbStats, jobs, call>>

\* The third branch starts: job.lock().await, then either the idle sleep
\* (!is_running || !is_connected, lock dropped) or the sweep over the courses.
LoopBeginSweep(r) ==
    /\ rt[r].pc = "select"
    /\ rt[r].total_checks < MaxChecks
    /\ rt' = [rt EXCEPT ![r].pc =
         IF ~rt[r].is_running \/ ~rt[r].is_connected THEN "sleep" ELSE "sweep"]
    /\ UNCHANGED <<unitVars, cli, jm, nJobs, dbJobs, dbTargets, dbStats, jobs, call>>

\* db::update_job_stats: UPDATE enrollment_stats SET total_checks = $1, ...
\* WHERE job_id = $7 (its result is ignored by the loop).
update_job_stats(j, n, ok) ==
    IF ok /\ j \in DOMAIN dbStats
    THEN [dbStats EXCEPT ![j].total_checks = n]
    ELSE dbStats

\* The sweep ends: total_checks += 1, the stats are written to the database,
\* the lock is dropped and the loop sleeps polling_interval.
LoopEndSweep(r, ok) ==
    /\ rt[r].pc = "sweep"
    /\ rt' = [rt EXCEPT ![r].pc = "sleep", ![r].total_checks = rt[r].total_checks + 1]
    /\ dbStats' = update_job_stats(rt[r].job, rt[r].total_checks + 1, ok)
    /\ UNCHANGED <<unitVars, cli, jm, nJobs, dbJobs, dbTargets, jobs, call>>

\* sleep(polling_interval) ends; the loop iterates.
LoopWake(r) ==
    /\ rt[r].pc = "sleep"
    /\ rt' = [rt EXCEPT ![r].pc = "select"]
    /\ UNCHANGED <<unitVars, cli, jm, nJobs, dbJobs, dbTargets, dbStats, jobs, call>>

LoopStep(r) ==
    \/ LoopSubscribe(r)
    \/ LoopRecv(r)
    \/ LoopTick(r)
    \/ LoopBeginSweep(r)
    \/ \E ok \in BOOLEAN : LoopEndSweep(r, ok)
    \/ LoopWake(r)

\* --------------------------------------------------------- refresh_cookie
\* A refresh_cookie that notifies on every check that finds the session
\* invalid.
refresh_cookie_renotify(is_connected, is_valid) ==
    IF ~is_valid /\ is_connected
    THEN [is_connected |-> FALSE, sent |-> 1, res |-> "err"]
    ELSE [is_connected |-> is_valid \/ is_connected,
          sent |-> IF is_valid THEN 0 ELSE 1, res |-> "ok"]

\* refresh_cookie (state.rs and main.rs) on a state whose flag is
\* is_connected, when is_connection_valid answers is_valid: the flag it
\* leaves, the notifications it sends and what it returns.
refresh_cookie(is_connected, is_valid) ==
    IF ~is_valid /\ is_connected
    THEN [is_connected |-> FALSE, sent |-> 1, res |-> "err"]
    ELSE [is_connected |-> is_valid \/ is_connected, sent |-> 0, res |-> "ok"]

\* The loop record s after its refresh branch has run refresh_cookie: on Err
\* the branch logs and `continue`s, on Ok it ends; the loop iterates.
Refreshed(s, is_valid) ==
    LET out == refresh_cookie(s.is_connected, is_valid)
    IN [s EXCEPT !.loop = "select", !.is_connected = out.is_connected,
                 !.notices = s.notices + out.sent,
                 !.refreshes = s.refreshes + 1,
                 !.checked = IF is_valid THEN "valid" ELSE "invalid"]

\* The loop record s after its sweep has called monitor_section_with_retry
\* for a target: Ok(Some(_)) counts an enrollment attempt.
Polled(s, found) ==
    [s EXCEPT !.polls = s.polls + 1,
              !.enrollment_attempts = s.enrollment_attempts + (IF found THEN 1 ELSE 0)]

\* ------------------------------------------------------------- JobManager
\* JobManager::start: under the is_running lock, Err if already running;
\* else is_running = true, a receiver is subscribed and the loop is spawned.
JmStart ==
    /\ SingleUser
    /\ jm' = IF jm.is_running
             THEN [jm EXCEPT !.res = "already_running"]
             ELSE [jm EXCEPT !.is_running = TRUE, !.loop = "select",
                             !.pending = FALSE, !.res = "ok"]
    /\ UNCHANGED <<unitVars, cli, nJobs, dbJobs, dbTargets, dbStats, jobs, rt, call>>

\* JobManager::stop: under the is_running lock, Err if not running; else
\* shutdown_tx.send(()), which reaches the receiver of a loop task still alive.
JmStop ==
    /\ SingleUser
    /\ jm' = IF ~jm.is_running
             THEN [jm EXCEPT !.res = "not_running"]
             ELSE [jm EXCEPT !.res = "ok",
                             !.pending = jm.pending \/
                                 jm.loop \in {"select", "sweep", "sleep", "refresh"}]
    /\ UNCHANGED <<unitVars, cli, nJobs, dbJobs, dbTargets, dbStats, jobs, rt, call>>

\* select! branch `shutdown_rx.recv()` of the JobManager loop.
JmRecv ==
    /\ jm.loop \in {"select", "sweep", "sleep"}
    /\ jm.pending
    /\ jm' = [jm EXCEPT !.loop = "stopping", !.pending = FALSE]
    /\ UNCHANGED <<unitVars, cli, nJobs, dbJobs, dbTargets, dbStats, jobs, rt, call>>

\* is_running_clone.lock().await; *running = false; break
JmExit ==
    /\ jm.loop = "stopping"
    /\ jm' = [jm EXCEPT !.loop = "done", !.is_running = FALSE]
    /\ UNCHANGED <<unitVars, cli, nJobs, dbJobs, dbTargets, dbStats, jobs, rt, call>>

\* select! branch `cookie_refresh_timer.tick()`: the sweep or sleep in
\* progress is dropped and the branch body refreshes the cookie.
JmTick ==
    /\ jm.loop \in {"select", "sweep", "sleep"}
    /\ jm.refreshes < MaxRefresh
    /\ jm' = [jm EXCEPT !.loop = "refresh"]
    /\ UNCHANGED <<unitVars, cli, nJobs, dbJobs, dbTargets, dbStats, jobs, rt, call>>

\* The tick branch: state.lock().await; refresh_cookie(&mut state_guard).
JmRefreshed(valid) ==
    /\ jm.loop = "refresh"
    /\ jm' = Refreshed(jm, valid)
    /\ UNCHANGED <<unitVars, cli, nJobs, dbJobs, dbTargets, dbStats, jobs, rt, call>>

\* A third branch that sweeps whatever is_connected says.
JmAdvance_ignore_connection ==
    /\ jm.loop \in {"select", "sweep", "sleep"}
    /\ jm' = [jm EXCEPT !.loop =
                 CASE jm.loop = "select" -> "sweep"
                   [] jm.loop = "sweep" -> "sleep"
                   [] OTHER -> "select"]
    /\ UNCHANGED <<unitVars, cli, nJobs, dbJobs, dbTargets, dbStats, jobs, rt, call>>

\* The third branch: under the state lock either the idle sleep (when
\* !is_connected, lock dropped) or the sweep; the sweep ends and the loop
\* sleeps; the sleep ends.
JmAdvance ==
    /\ jm.loop \in {"select", "sweep", "sleep"}
    /\ jm' = [jm EXCEPT !.loop =
                 CASE jm.loop = "select" ->
                          IF jm.is_connected THEN "sweep" ELSE "sleep"
                   [] jm.loop = "sweep" -> "sleep"
                   [] OTHER -> "select"]
    /\ UNCHANGED <<unitVars, cli, nJobs, dbJobs, dbTargets, dbStats, jobs, rt, call>>

\* The sweep reaches a target: monitor_section_with_retry is called.
JmPoll(found) ==
    /\ jm.loop = "sweep"
    /\ jm.polls < MaxPolls
    /\ jm' = Polled(jm, found)
    /\ UNCHANGED <<unitVars, cli, nJobs, dbJobs, dbTargets, dbStats, jobs, rt, call>>

\* ------------------------------------------------ run_monitor (main.rs)
\* main(): ctrl_c() completes and shutdown_tx.send(()) reaches the receiver
\* that run_monitor was given.
CliCtrlC ==
    /\ cli.built /\ ~cli.sent
    /\ cli' = [cli EXCEPT !.sent = TRUE, !.pending = cli.loop # "done"]
    /\ UNCHANGED <<unitVars, nJobs, dbJobs, dbTargets, dbStats, jobs, rt, call, jm>>

\* select! branch `shutdown_rx.recv()`: the sweep or sleep in progress is
\* dropped with the guard it holds; break.
CliRecv ==
    /\ cli.loop \in {"select", "sweep", "sleep"}
    /\ cli.pending
    /\ cli' = [cli EXCEPT !.loop = "done", !.locked = FALSE, !.pending = FALSE]
    /\ UNCHANGED <<unitVars, nJobs, dbJobs, dbTargets, dbStats, jobs, rt, call, jm>>

\* select! branch `cookie_refresh_timer.tick()`: the sweep or sleep in
\* progress is dropped with its guard, and the branch takes state.lock().
CliTick ==
    /\ cli.loop \in {"select", "sweep", "sleep"}
    /\ cli.refreshes < MaxRefresh
    /\ cli' = [cli EXCEPT !.loop = "refresh", !.locked = TRUE]
    /\ UNCHANGED <<unitVars, nJobs, dbJobs, dbTargets, dbStats, jobs, rt, call, jm>>

\* refresh_cookie(&mut state_guard) (a session that just expired gives Err
\* and `continue`); the branch ends, the guard drops.
CliRefreshed(valid) ==
    /\ cli.loop = "refresh"
    /\ cli' = [Refreshed(cli, valid) EXCEPT !.locked = FALSE]
    /\ UNCHANGED <<unitVars, nJobs, dbJobs, dbTargets, dbStats, jobs, rt, call, jm>>

\* The third branch starts: state.lock().await, then the idle sleep when
\* !is_connected, else the sweep; state_guard lives to the end of the block.
CliBeginSweep ==
    /\ cli.loop = "select"
    /\ cli' = [cli EXCEPT !.locked = TRUE,
                          !.loop = IF cli.is_connected THEN "sweep" ELSE "sleep"]
    /\ UNCHANGED <<unitVars, nJobs, dbJobs, dbTargets, dbStats, jobs, rt, call, jm>>

\* The sweep ends: check_health, last_check_time, then sleep(polling_interval)
\* with state_guard still in scope.
CliEndSweep ==
    /\ cli.loop = "sweep"
    /\ cli' = [cli EXCEPT !.loop = "sleep"]
    /\ UNCHANGED <<unitVars, nJobs, dbJobs, dbTargets, dbStats, jobs, rt, call, jm>>

\* The sweep reaches a target: monitor_section_with_retry is called.
CliPoll(found) ==
    /\ cli.loop = "sweep"
    /\ cli.polls < MaxPolls
    /\ cli' = Polled(cli, found)
    /\ UNCHANGED <<unitVars, nJobs, dbJobs, dbTargets, dbStats, jobs, rt, call, jm>>

\* The sleep ends, the block ends and state_guard is dropped.
CliWake ==
    /\ cli.loop = "sleep"
    /\ cli' = [cli EXCEPT !.loop = "select", !.locked = FALSE]
    /\ UNCHANGED <<unitVars, nJobs, dbJobs, dbTargets, dbStats, jobs, rt, call, jm>>

\* ------------------------------------------------------------ the system
Next ==
    \/ \E c \in Callers, u \in Owners, ok \in BOOLEAN : CreateJobRow(c, u, ok)
    \/ \E c \in Callers, ok \in BOOLEAN : CreateCourses(c, ok)
    \/ \E c \in Callers, ok \in BOOLEAN : CreateStats(c, ok)
    \/ \E c \in Callers, j \in JobIds, u \in Users : StartGet(c, j, u)
    \/ \E c \in Callers : StartCheck(c)
    \/ \E c \in Callers, ok \in BOOLEAN : StartLoad(c, ok)
    \/ \E c \in Callers : StartInsert(c)
    \/ \E c \in Callers, ok \in BOOLEAN : StartActivate(c, ok)
    \/ \E c \in Callers, j \in JobIds : StopGet(c, j)
    \/ \E c \in Callers : StopSignal(c)
    \/ \E c \in Callers : StopRemove(c)
    \/ \E c \in Callers, ok \in BOOLEAN : StopPersist(c, ok)
    \/ \E c \in Callers, j \in JobIds : StatusGet(c, j)
    \/ \E c \in Callers : StatusRead(c)
    \/ \E c \in Callers, j \in JobIds, u \in Users : DeleteCheck(c, j, u)
    \/ \E c \in Callers : DeleteStop(c)
    \/ \E c \in Callers, ok \in BOOLEAN : DeleteRows(c, ok)
    \/ \E r \in DOMAIN rt : LoopStep(r)
    \/ JmStart
    \/ JmStop
    \/ JmRecv
    \/ JmExit
    \/ JmTick
    \/ JmAdvance
    \/ \E valid \in BOOLEAN : JmRefreshed(valid)
    \/ \E found \in BOOLEAN : JmPoll(found)
    \/ CliCtrlC
    \/ CliRecv
    \/ CliTick
    \/ \E valid \in BOOLEAN : CliRefreshed(valid)
    \/ CliBeginSweep
    \/ CliEndSweep
    \/ \E found \in BOOLEAN : CliPoll(found)
    \/ CliWake

Spec == Init /\ [][Next]_vars

\* Start, Stop and the loops, for a job that create_job has already persisted.
LifeInit ==
    /\ nJobs = 1
    /\ dbJobs = [j \in {1} |-> NewJobRow("u1")]
    /\ dbTargets = {1}
    /\ dbStats = [j \in {1} |-> ZeroStats]
    /\ jobs = [j \in {} |-> 0]
    /\ rt = <<>>
    /\ call = [c \in Callers |-> IdleCall]
    /\ jm = NoManager
    /\ cli = NoCli
    /\ poll = NoPoll
    /\ TrackerNew
    /\ VaultNew
    /\ sweep = NoSweep

LifeNext ==
    \/ \E c \in Callers, u \in Users : StartGet(c, 1, u)
    \/ \E c \in Callers : StartCheck(c)
    \/ \E c \in Callers, ok \in BOOLEAN : StartLoad(c, ok)
    \/ \E c \in Callers : StartInsert(c)
    \/ \E c \in Callers, ok \in BOOLEAN : StartActivate(c, ok)
    \/ \E c \in Callers : StopGet(c, 1)
    \/ \E c \in Callers : StopSignal(c)
    \/ \E c \in Callers : StopRemove(c)
    \/ \E c \in Callers, ok \in BOOLEAN : StopPersist(c, ok)
    \/ \E r \in DOMAIN rt : LoopStep(r)

\* The steps of a call that caller c has already entered.
InFlightStep(c) ==
    \/ StartCheck(c)
    \/ \E ok \in BOOLEAN : StartLoad(c, ok)
    \/ StartInsert(c)
    \/ \E ok \in BOOLEAN : StartActivate(c, ok)
    \/ StopSignal(c)
    \/ StopRemove(c)
    \/ \E ok \in BOOLEAN : StopPersist(c, ok)

\* The tokio runtime runs every spawned task, so a loop reaches its subscribe;
\* select! polls its branches in random order, so a recv() that is ready is
\* taken.  tokio's Mutex and RwLock are FIFO-fair and the database answers,
\* so a call that has been entered goes on to its return.  Clients are free
\* never to call.
FairSpec ==
    /\ LifeInit
    /\ [][LifeNext]_vars
    /\ \A r \in 1..MaxRuntimes :
          /\ WF_vars(r \in DOMAIN rt /\ LoopSubscribe(r))
          /\ WF_vars(r \in DOMAIN rt /\ LoopRecv(r))
    /\ \A c \in Callers : SF_vars(InFlightStep(c))

\* ============================================= should_notify_for_section
\* stats.rs line 30: the entry's last failure fell on a day before today.
PreviousDay_never(failures, now) == FALSE

PreviousDay(failures, now) == failures.last_failure < now

\* A should_notify_for_section that suppresses when count > 3.
should_notify_for_section_gt(sf, k, now) ==
    IF k \in DOMAIN sf
    THEN IF PreviousDay(sf[k], now)
         THEN [res |-> TRUE, sf |-> With(sf, k, [count |-> 1, last_failure |-> now])]
         ELSE IF sf[k].count > 3
              THEN [res |-> FALSE, sf |-> sf]
              ELSE [res |-> TRUE,
                    sf |-> With(sf, k, [count |-> sf[k].count + 1, last_failure |-> now])]
    ELSE [res |-> TRUE, sf |-> With(sf, k, [count |-> 1, last_failure |-> now])]

\* A should_notify_for_section that keeps counting the suppressed failures.
should_notify_for_section_uncapped(sf, k, now) ==
    IF k \in DOMAIN sf
    THEN IF PreviousDay(sf[k], now)
         THEN [res |-> TRUE, sf |-> With(sf, k, [count |-> 1, last_failure |-> now])]
         ELSE [res |-> sf[k].count < 3,
               sf |-> With(sf, k, [count |-> sf[k].count + 1, last_failure |-> now])]
    ELSE [res |-> TRUE, sf |-> With(sf, k, [count |-> 1, last_failure |-> now])]

\* EnrollmentStats::should_notify_for_section(section_id) called when the
\* clock reads `now` on the map sf: the value returned and the map it leaves.
should_notify_for_section(sf, k, now) ==
    IF k \in DOMAIN sf
    THEN IF PreviousDay(sf[k], now)
         THEN [res |-> TRUE, sf |-> With(sf, k, [count |-> 1, last_failure |-> now])]
         ELSE IF sf[k].count >= 3
              THEN [res |-> FALSE, sf |-> sf]
              ELSE [res |-> TRUE,
                    sf |-> With(sf, k, [count |-> sf[k].count + 1, last_failure |-> now])]
    ELSE [res |-> TRUE, sf |-> With(sf, k, [count |-> 1, last_failure |-> now])]

\* The entry of key k, or NoEntry.
EntryOf(sf, k) == IF k \in DOMAIN sf THEN sf[k] ELSE NoEntry

\* ============================================================ poll cycle
\* available_seats of a reading and seat_threshold of a request (both signed).
Seats == -1..MaxSeats

Modes == {"include", "exclude"}

\* A monitor_section whose threshold test is `available_seats < seat_threshold`.
should_attempt_below(seats, t) ==
    LET has_availability == seats > 0
        within_threshold == t = 0 \/ seats < t
    IN has_availability /\ within_threshold

\* monitor_section: has_availability && within_threshold, as computed on the
\* first reading and again on the recheck.
should_attempt(seats, t) ==
    LET has_availability == seats > 0
        within_threshold == t = 0 \/ seats <= t
    IN has_availability /\ within_threshold

\* api::create_job of the single-user server: the threshold kept in
\* config.monitoring.seat_threshold is 0 for Include, else the request's.
ApiCreateJob(mode, t) ==
    /\ poll.server = "single" /\ poll.pc = "idle"
    /\ poll' = [poll EXCEPT !.created = TRUE, !.mode = mode, !.requested = t,
                            !.stored = IF mode = "include" THEN 0 ELSE t]
    /\ UNCHANGED <<regVars, trackVars, cryptoVars, sweep>>

\* MultiUserState::create_job -> db::create_job: the INSERT binds
\* request.seat_threshold and request.monitoring_mode as they came.
MultiCreateJob(mode, t) ==
    /\ poll.server = "multi" /\ ~poll.created
    /\ poll' = [poll EXCEPT !.created = TRUE, !.mode = mode, !.requested = t,
                            !.stored = t]
    /\ UNCHANGED <<regVars, trackVars, cryptoVars, sweep>>

\* A sweep reaches a target: the loop has read seat_threshold (the UserJob's
\* copy of the row, or the config's) and calls monitor_section_with_retry.
BeginCycle ==
    /\ poll.created /\ poll.pc = "idle"
    /\ poll.enrollment_attempts < MaxAttempts
    /\ poll' = [poll EXCEPT !.pc = "read1", !.thr = poll.stored, !.tries = 0,
                            !.s1 = 0, !.d1 = FALSE, !.s2 = 0, !.d2 = FALSE,
                            !.builds = 0, !.last = "none", !.failkind = "none",
                            !.act = "none", !.notified = 0, !.counted = FALSE,
                            !.credited = FALSE, !.dropped = FALSE]
    /\ UNCHANGED <<regVars, trackVars, cryptoVars, sweep>>

\* tokio_retry::Retry::spawn(get_retry_strategy(), ..): after a failed call
\* the next delay is taken from the strategy, which holds
\* DEFAULT_RETRY_ATTEMPTS of them; when it is exhausted the error is returned.
\* n: calls made so far.
RetryLeft(n) == n - 1 < DEFAULT_RETRY_ATTEMPTS

\* The poll record after the call of monitor_section in progress has failed.
MonitorFailed(q) ==
    IF RetryLeft(q.tries) THEN [q EXCEPT !.pc = "read1"]
    ELSE [q EXCEPT !.pc = "idle", !.last = "error"]

\* What a failing call leaves in failkind: "error" is a transient failure
\* (WebReg unreachable), "fatal" one that no retry can cure (the log file
\* cannot be opened, the request cannot be built).
Failed(q, kind) ==
    [q EXCEPT !.failkind = IF kind = "fatal" THEN "fatal" ELSE "transient"]

Outcomes == {"error", "fatal", "absent", "seats"}

\* monitor_section, first get_course_info: the query fails, or the section is
\* not listed (Ok(None)), or it reports n seats and should_attempt decides.
FirstReading(kind, n) ==
    /\ poll.pc = "read1"
    /\ LET q == [poll EXCEPT !.tries = poll.tries + 1, !.s1 = 0, !.d1 = FALSE,
                             !.s2 = 0, !.d2 = FALSE]
       IN poll' =
            CASE kind \in {"error", "fatal"} -> MonitorFailed(Failed(q, kind))
              [] kind = "absent" -> [q EXCEPT !.pc = "idle", !.last = "no_opening"]
              [] OTHER ->
                   IF should_attempt(n, q.thr)
                   THEN [q EXCEPT !.s1 = n, !.d1 = TRUE, !.pc = "read2"]
                   ELSE [q EXCEPT !.s1 = n, !.pc = "idle", !.last = "no_opening"]
    /\ UNCHANGED <<regVars, trackVars, cryptoVars, sweep>>

\* A monitor_section that returns Some(section_id) whatever the recheck reads.
Recheck_any(kind, n) ==
    /\ poll.pc = "read2"
    /\ poll' =
         CASE kind \in {"error", "fatal"} -> MonitorFailed(Failed(poll, kind))
           [] kind = "absent" -> [poll EXCEPT !.pc = "idle", !.last = "recheck_missing"]
           [] OTHER ->
                [poll EXCEPT !.s2 = n, !.d2 = should_attempt(n, poll.thr), !.pc = "found",
                             !.notified = poll.notified + 1]
    /\ UNCHANGED <<regVars, trackVars, cryptoVars, sweep>>

\* The section key of the target whose cycle is followed.
PolledKey == "k1"

\* A monitor_section_with_retry that asks should_notify_for_section before
\* it sends the found-opening notification.
Recheck_throttled(kind, n) ==
    /\ poll.pc = "read2"
    /\ poll' =
         CASE kind \in {"error", "fatal"} -> MonitorFailed(Failed(poll, kind))
           [] kind = "absent" -> [poll EXCEPT !.pc = "idle", !.last = "recheck_missing"]
           [] OTHER ->
                IF should_attempt(n, poll.thr)
                THEN [poll EXCEPT !.s2 = n, !.d2 = TRUE, !.pc = "found",
                                  !.notified = poll.notified +
                                      (IF should_notify_for_section(
                                              section_failures, PolledKey, today).res
                                       THEN 1 ELSE 0)]
                ELSE [poll EXCEPT !.s2 = n, !.pc = "idle", !.last = "false_positive"]
    /\ UNCHANGED <<regVars, trackVars, cryptoVars, sweep>>

\* monitor_section, the recheck: only when it passes too is Some(section_id)
\* returned; then monitor_section_with_retry hands the found-opening
\* notification to the notifier and awaits it.
Recheck(kind, n) ==
    /\ poll.pc = "read2"
    /\ poll' =
         CASE kind \in {"error", "fatal"} -> MonitorFailed(Failed(poll, kind))
           [] kind = "absent" -> [poll EXCEPT !.pc = "idle", !.last = "recheck_missing"]
           [] OTHER ->
                IF should_attempt(n, poll.thr)
                THEN [poll EXCEPT !.s2 = n, !.d2 = TRUE, !.pc = "found",
                                  !.notified = poll.notified + 1]
                ELSE [poll EXCEPT !.s2 = n, !.pc = "idle", !.last = "false_positive"]
    /\ UNCHANGED <<regVars, trackVars, cryptoVars, sweep>>

\* A sweep that calls try_enroll_with_retry without counting the attempt.
FoundNotified_no_count ==
    /\ poll.pc = "found"
    /\ poll' = [poll EXCEPT !.pc = "enroll", !.counted = TRUE]
    /\ UNCHANGED <<regVars, trackVars, cryptoVars, sweep>>

\* notifier.send_notification ends, monitor_section_with_retry returns
\* Ok(Some(section_id)) and the sweep counts enrollment_attempts += 1.
FoundNotified ==
    /\ poll.pc = "found"
    /\ poll' = [poll EXCEPT !.pc = "enroll", !.counted = TRUE,
                            !.enrollment_attempts = poll.enrollment_attempts + 1]
    /\ UNCHANGED <<regVars, trackVars, cryptoVars, sweep>>

\* try_enroll under try_enroll_with_retry: a request that cannot be built is
\* an Err (retried); else add_section is called once, and its error is
\* turned into Ok(false), so it is not retried.  With the result in hand
\* try_enroll_with_retry takes the success branch (last = "enrolled") or the
\* result = false branch with should_notify_for_section (last = "failed"),
\* and awaits the notification.
TryEnroll(built, outcome) ==
    /\ poll.pc = "enroll"
    /\ LET q == [poll EXCEPT !.builds = poll.builds + 1]
       IN poll' =
            IF ~built
            THEN IF RetryLeft(q.builds) THEN Failed(q, "fatal")
                 ELSE [Failed(q, "fatal") EXCEPT !.pc = "idle", !.last = "error"]
            ELSE [q EXCEPT !.pc = "report", !.submits = poll.submits + 1,
                           !.act = outcome,
                           !.last = IF outcome = "true" THEN "enrolled" ELSE "failed"]
    /\ UNCHANGED <<regVars, trackVars, cryptoVars, sweep>>

\* The notification ends, try_enroll_with_retry returns Ok(result) and the
\* sweep counts successful_enrollments += 1 on Ok(true).
EnrollReported ==
    /\ poll.pc = "report"
    /\ poll' = IF poll.act = "true"
               THEN [poll EXCEPT !.pc = "idle", !.credited = TRUE,
                                 !.successful_enrollments = poll.successful_enrollments + 1]
               ELSE [poll EXCEPT !.pc = "idle"]
    /\ UNCHANGED <<regVars, trackVars, cryptoVars, sweep>>

\* select! completes on the shutdown or the refresh branch while the cycle
\* is at one of its awaits: the sweep future is dropped where it stands.
CycleDropped ==
    /\ poll.pc \in {"read1", "read2", "found", "enroll", "report"}
    /\ poll' = [poll EXCEPT !.pc = "idle", !.dropped = TRUE]
    /\ UNCHANGED <<regVars, trackVars, cryptoVars, sweep>>

PollInit ==
    /\ nJobs = 0
    /\ dbJobs = [j \in {} |-> NewJobRow("u1")]
    /\ dbTargets = {}
    /\ dbStats = [j \in {} |-> ZeroStats]
    /\ jobs = [j \in {} |-> 0]
    /\ rt = <<>>
    /\ call = [c \in Callers |-> IdleCall]
    /\ \E b \in {"single", "multi"}, sf \in StoredFailures :
          /\ b = "single" => sf = [k \in {} |-> NoEntry]
          /\ jm = IF b = "single" THEN NewManager ELSE NoManager
          /\ cli = NoCli
          /\ poll = [NoPoll EXCEPT !.server = b]
          /\ TrackerLoaded(sf)
    /\ VaultNew
    /\ sweep = NoSweep

PollNext ==
    \/ \E mode \in Modes, t \in Seats : ApiCreateJob(mode, t)
    \/ \E mode \in Modes, t \in Seats : MultiCreateJob(mode, t)
    \/ BeginCycle
    \/ \E kind \in Outcomes, n \in Seats : FirstReading(kind, n)
    \/ \E kind \in Outcomes, n \in Seats : Recheck(kind, n)
    \/ FoundNotified
    \/ \E built \in BOOLEAN, outcome \in {"true", "false", "error"} :
          TryEnroll(built, outcome)
    \/ EnrollReported
    \/ CycleDropped

PollSpec == PollInit /\ [][PollNext]_vars

\* ====================================================== failure tracker
\* A try_enroll_with_retry that sends the failure notification whatever
\* should_notify_for_section returns.
EnrollFailed_always_notify(k) ==
    /\ lastcall.n < MaxCalls
    /\ LET out == should_notify_for_section(section_failures, k, today)
       IN /\ section_failures' = out.sf
          /\ lastcall' = [n |-> lastcall.n + 1, op |-> "failure", key |-> k,
                          res |-> out.res, before |-> EntryOf(section_failures, k),
                          sent |-> <<"failure">>]
          /\ streak' = [streak EXCEPT ![k] =
                 IF k \notin DOMAIN section_failures
                 THEN [day |-> today, res |-> <<out.res>>]
                 ELSE IF streak[k].day = today
                      THEN [streak[k] EXCEPT !.res = Append(streak[k].res, out.res)]
                      ELSE NoStreak]
    /\ prevcall' = lastcall
    /\ UNCHANGED <<today, regVars, poll, cryptoVars, sweep>>

\* try_enroll_with_retry, result = false: should_notify_for_section(key)
\* decides between the failure notification and the suppression log line.
EnrollFailed(k) ==
    /\ lastcall.n < MaxCalls
    /\ LET out == should_notify_for_section(section_failures, k, today)
       IN /\ section_failures' = out.sf
          /\ lastcall' = [n |-> lastcall.n + 1, op |-> "failure", key |-> k,
                          res |-> out.res, before |-> EntryOf(section_failures, k),
                          sent |-> IF out.res THEN <<"failure">> ELSE <<>>]
          /\ streak' = [streak EXCEPT ![k] =
                 IF k \notin DOMAIN section_failures
                 THEN [day |-> today, res |-> <<out.res>>]
                 ELSE IF streak[k].day = today
                      THEN [streak[k] EXCEPT !.res = Append(streak[k].res, out.res)]
                      ELSE NoStreak]
    /\ prevcall' = lastcall
    /\ UNCHANGED <<today, regVars, poll, cryptoVars, sweep>>

\* A try_enroll_with_retry that sends the success notification and leaves
\* section_failures as it is.
EnrollSucceeded_keep(k) ==
    /\ lastcall.n < MaxCalls
    /\ lastcall' = [n |-> lastcall.n + 1, op |-> "success", key |-> k,
                    res |-> TRUE, before |-> EntryOf(section_failures, k),
                    sent |-> <<"success">>]
    /\ streak' = [streak EXCEPT ![k] = NoStreak]
    /\ prevcall' = lastcall
    /\ UNCHANGED <<section_failures, today, regVars, poll, cryptoVars, sweep>>

\* try_enroll_with_retry, result = true: section_failures.remove(key), then
\* the success notification.
EnrollSucceeded(k) ==
    /\ lastcall.n < MaxCalls
    /\ section_failures' = Without(section_failures, k)
    /\ lastcall' = [n |-> lastcall.n + 1, op |-> "success", key |-> k,
                    res |-> TRUE, before |-> EntryOf(section_failures, k),
                    sent |-> <<"success">>]
    /\ streak' = [streak EXCEPT ![k] = NoStreak]
    /\ prevcall' = lastcall
    /\ UNCHANGED <<today, regVars, poll, cryptoVars, sweep>>

\* Midnight passes on the local clock.
DayAdvance ==
    /\ today < MaxDay
    /\ today' = today + 1
    /\ UNCHANGED <<section_failures, streak, lastcall, prevcall, regVars, poll, cryptoVars, sweep>>

ThrottleInit ==
    /\ nJobs = 0
    /\ dbJobs = [j \in {} |-> NewJobRow("u1")]
    /\ dbTargets = {}
    /\ dbStats = [j \in {} |-> ZeroStats]
    /\ jobs = [j \in {} |-> 0]
    /\ rt = <<>>
    /\ call = [c \in Callers |-> IdleCall]
    /\ jm = NoManager
    /\ cli = NoCli
    /\ poll = NoPoll
    /\ TrackerNew
    /\ VaultNew
    /\ sweep = NoSweep

ThrottleNext ==
    \/ \E k \in Keys : EnrollFailed(k)
    \/ \E k \in Keys : EnrollSucceeded(k)
    \/ DayAdvance

ThrottleSpec == ThrottleInit /\ [][ThrottleNext]_vars

\* ======================================================= secret cipher
CipherKeys == {"K1", "K2"}        \* 32-byte keys ENCRYPTION_KEY may hold
Plaintexts == {"", "a", "b"}      \* cookie strings
NonceIds == {"n1", "n2"}          \* 12-byte values OsRng may return

\* str::as_bytes and String::from_utf8
as_bytes(p) == [kind |-> "utf8", s |-> p]
from_utf8(b) ==
    IF b.kind = "utf8" THEN [ok |-> TRUE, s |-> b.s] ELSE [ok |-> FALSE, s |-> ""]

\* Aes256Gcm::generate_nonce(&mut OsRng): 96 random bits
generate_nonce(n) == [kind |-> "raw", id |-> n, len |-> 12]

\* general_purpose::STANDARD.encode / .decode: decode gives back the bytes of
\* a string that encode produced and fails on a string that is not base64.
encode(b) == [kind |-> "b64", of |-> b]
decode(str) ==
    IF str.kind = "b64" THEN [ok |-> TRUE, bytes |-> str.of]
    ELSE [ok |-> FALSE, bytes |-> NoBytes]

\* Length of a byte string (a sealed message carries a 16-byte tag).
ByteLen(b) == IF b.kind = "raw" THEN b.len ELSE 16

\* Aes256Gcm as an ideal authenticated cipher: the output of encrypt stands
\* for itself, and decrypt opens exactly the outputs of encrypt made with the
\* same key and nonce; on everything else the tag check fails.
cipher_encrypt(key, nonce, msg) ==
    [kind |-> "sealed", key |-> key, nonce |-> nonce, msg |-> msg]
cipher_decrypt(key, nonce, ct) ==
    IF ct.kind = "sealed" /\ ct.key = key /\ ct.nonce = nonce
    THEN [ok |-> TRUE, bytes |-> ct.msg]
    ELSE [ok |-> FALSE, bytes |-> NoBytes]

\* An encrypt that returns the base64 of a nonce other than the one it used.
encrypt_other_nonce(key, plaintext, n) ==
    LET nonce == generate_nonce(n)
        ciphertext == cipher_encrypt(key, nonce, as_bytes(plaintext))
    IN [ciphertext |-> encode(ciphertext),
        nonce |-> encode(generate_nonce(CHOOSE m \in NonceIds : m # n))]

\* EncryptionKey::encrypt, with n the nonce OsRng returns.
encrypt(key, plaintext, n) ==
    LET nonce == generate_nonce(n)
        ciphertext == cipher_encrypt(key, nonce, as_bytes(plaintext))
    IN [ciphertext |-> encode(ciphertext), nonce |-> encode(nonce)]

\* EncryptionKey::decrypt.  Nonce::from_slice asserts that the slice has the
\* 12 bytes of a nonce and panics otherwise.
decrypt(key, ciphertext_b64, nonce_b64) ==
    LET ciphertext == decode(ciphertext_b64)
        nonce_bytes == decode(nonce_b64)
    IN IF ~ciphertext.ok THEN [res |-> "err", s |-> ""]
       ELSE IF ~nonce_bytes.ok THEN [res |-> "err", s |-> ""]
       ELSE IF ByteLen(nonce_bytes.bytes) # 12 THEN [res |-> "panic", s |-> ""]
       ELSE LET plaintext == cipher_decrypt(key, nonce_bytes.bytes, ciphertext.bytes)
            IN IF ~plaintext.ok THEN [res |-> "err", s |-> ""]
               ELSE LET str == from_utf8(plaintext.bytes)
                    IN IF str.ok THEN [res |-> "ok", s |-> str.s]
                       ELSE [res |-> "err", s |-> ""]

\* MultiUserState::create_job: the cookie is encrypted under the server's key
\* and the pair is stored in the job row.
StoreCredential(k, plaintext, n) ==
    /\ LET e == encrypt(k, plaintext, n)
       IN vault' = [made |-> TRUE, ciphertext |-> e.ciphertext, nonce |-> e.nonce,
                    nonce0 |-> e.nonce, key |-> k, plaintext |-> plaintext,
                    touched |-> "none"]
    /\ opened' = NoOpened
    /\ UNCHANGED <<regVars, poll, trackVars, sweep>>

\* What has been changed in the stored pair once `part` is changed too.
Touched(part) ==
    IF vault.touched \in {"none", part} THEN part ELSE "both"

\* The cookie_encrypted column is changed outside the program: bytes of the
\* ciphertext are altered, or the string is no longer base64.
AlterCiphertext(how) ==
    /\ vault.made
    /\ vault' = [vault EXCEPT
                   !.ciphertext = IF how = "bytes"
                                  THEN encode([kind |-> "raw", id |-> "altered", len |-> 17])
                                  ELSE Text("!"),
                   !.touched = Touched("ciphertext")]
    /\ opened' = NoOpened
    /\ UNCHANGED <<regVars, poll, trackVars, sweep>>

\* The encryption_nonce column is changed outside the program: to another
\* 12-byte nonce, to a value of another length, or to a string that is not
\* base64.
ReplaceNonce(how, n) ==
    /\ vault.made
    /\ LET new == CASE how = "other" -> encode(generate_nonce(n))
                    [] how = "short" -> encode([kind |-> "raw", id |-> n, len |-> 11])
                    [] OTHER -> Text("!")
       IN /\ new # vault.nonce0
          /\ vault' = [vault EXCEPT !.nonce = new, !.touched = Touched("nonce")]
    /\ opened' = NoOpened
    /\ UNCHANGED <<regVars, poll, trackVars, sweep>>

\* start_job line 114 under a server whose key is k: the `?` returns the
\* error of decrypt; after a successful decrypt the wrapper, the targets,
\* the settings and the stats are loaded (rest_ok) and the UserJob is built.
StartDecrypt(k, rest_ok) ==
    /\ vault.made
    /\ LET out == decrypt(k, vault.ciphertext, vault.nonce)
       IN opened' = [key |-> k, res |-> out.res, plaintext |-> out.s,
                     start |-> CASE out.res = "panic" -> "panic"
                                 [] out.res = "err" -> "error"
                                 [] OTHER -> IF rest_ok THEN "ok" ELSE "error",
                     runtime |-> out.res = "ok" /\ rest_ok]
    /\ UNCHANGED <<vault, regVars, poll, trackVars, sweep>>

CryptoInit ==
    /\ nJobs = 0
    /\ dbJobs = [j \in {} |-> NewJobRow("u1")]
    /\ dbTargets = {}
    /\ dbStats = [j \in {} |-> ZeroStats]
    /\ jobs = [j \in {} |-> 0]
    /\ rt = <<>>
    /\ call = [c \in Callers |-> IdleCall]
    /\ jm = NoManager
    /\ cli = NoCli
    /\ poll = NoPoll
    /\ TrackerNew
    /\ VaultNew
    /\ sweep = NoSweep

CryptoNext ==
    \/ \E k \in CipherKeys, plaintext \in Plaintexts, n \in NonceIds :
          StoreCredential(k, plaintext, n)
    \/ \E how \in {"bytes", "encoding"} : AlterCiphertext(how)
    \/ \E how \in {"other", "short", "encoding"}, n \in NonceIds : ReplaceNonce(how, n)
    \/ \E k \in CipherKeys, rest_ok \in BOOLEAN : StartDecrypt(k, rest_ok)

CryptoSpec == CryptoInit /\ [][CryptoNext]_vars

\* ======================================================= sweep of a job
\* The third select! branch of run_monitoring_loop passes its guard and
\* starts the `for course in &courses` loops.
SweepBegin ==
    /\ sweep.i = 0
    /\ sweep.sweeps < MaxSweeps
    /\ sweep' = [sweep EXCEPT !.i = 1, !.pc = "monitor", !.polled = <<>>,
                              !.failed = FALSE, !.ended = "none",
                              !.sweeps = sweep.sweeps + 1]
    /\ UNCHANGED <<regVars, poll, trackVars, cryptoVars>>

\* A sweep in which an Err of monitor_section_with_retry leaves the loops
\* (as `?` would).
SweepMonitor_propagate(res) ==
    /\ sweep.i \in 1..MaxTargets /\ sweep.pc = "monitor"
    /\ LET q == [sweep EXCEPT !.polled = Append(sweep.polled, res)]
       IN sweep' =
            CASE res = "some" ->
                   [q EXCEPT !.pc = "enroll",
                             !.enrollment_attempts = sweep.enrollment_attempts + 1]
              [] res = "err" ->
                   [q EXCEPT !.failed = TRUE, !.i = 0, !.pc = "none", !.ended = "error"]
              [] OTHER -> [q EXCEPT !.i = sweep.i + 1]
    /\ UNCHANGED <<regVars, poll, trackVars, cryptoVars>>

\* `if let Ok(Some(section_id)) = monitor_section_with_retry(..).await` for
\* target i: Ok(Some) counts an enrollment attempt and goes on to
\* try_enroll_with_retry; Ok(None) and Err(_) fall through to the next target.
SweepMonitor(res) ==
    /\ sweep.i \in 1..MaxTargets /\ sweep.pc = "monitor"
    /\ LET q == [sweep EXCEPT !.polled = Append(sweep.polled, res)]
       IN sweep' =
            CASE res = "some" ->
                   [q EXCEPT !.pc = "enroll",
                             !.enrollment_attempts = sweep.enrollment_attempts + 1]
              [] res = "err" -> [q EXCEPT !.failed = TRUE, !.i = sweep.i + 1]
              [] OTHER -> [q EXCEPT !.i = sweep.i + 1]
    /\ UNCHANGED <<regVars, poll, trackVars, cryptoVars>>

\* `if let Ok(true) = try_enroll_with_retry(..).await`: Ok(true) counts a
\* successful enrollment; Ok(false) and Err(_) fall through to the next target.
SweepEnroll(res) ==
    /\ sweep.i \in 1..MaxTargets /\ sweep.pc = "enroll"
    /\ sweep' = [sweep EXCEPT
                    !.i = sweep.i + 1, !.pc = "monitor",
                    !.failed = sweep.failed \/ res = "err",
                    !.successful_enrollments =
                        sweep.successful_enrollments + (IF res = "true" THEN 1 ELSE 0)]
    /\ UNCHANGED <<regVars, poll, trackVars, cryptoVars>>

\* The loops are over: last_check_time, total_checks += 1, the stats are
\* written, the lock is dropped and the loop sleeps.
SweepEnd ==
    /\ sweep.i = MaxTargets + 1
    /\ sweep' = [sweep EXCEPT !.i = 0, !.pc = "none", !.ended = "complete",
                              !.total_checks = sweep.total_checks + 1]
    /\ UNCHANGED <<regVars, poll, trackVars, cryptoVars>>

\* select! completes on the shutdown or the tick branch while the sweep is at
\* one of its awaits, and the sweep's future is dropped there.
SweepDropped ==
    /\ sweep.i \in 1..MaxTargets
    /\ sweep' = [sweep EXCEPT !.i = 0, !.pc = "none", !.ended = "dropped"]
    /\ UNCHANGED <<regVars, poll, trackVars, cryptoVars>>

SweepInit ==
    /\ nJobs = 0
    /\ dbJobs = [j \in {} |-> NewJobRow("u1")]
    /\ dbTargets = {}
    /\ dbStats = [j \in {} |-> ZeroStats]
    /\ jobs = [j \in {} |-> 0]
    /\ rt = <<>>
    /\ call = [c \in Callers |-> IdleCall]
    /\ jm = NoManager
    /\ cli = NoCli
    /\ poll = NoPoll
    /\ TrackerNew
    /\ VaultNew
    /\ sweep = NoSweep

SweepNext ==
    \/ SweepBegin
    \/ \E res \in {"none", "some", "err"} : SweepMonitor(res)
    \/ \E res \in {"true", "false", "err"} : SweepEnroll(res)
    \/ SweepEnd
    \/ SweepDropped

SweepSpec == SweepInit /\ [][SweepNext]_vars

\* ==================================================================== C1
\* A start_job call of caller c has returned Ok.
StartReturnedOk(c) ==
    call[c].op = "start" /\ call[c].pc = "ret" /\ call[c].res = "ok"

\* C1: of the Start calls on one job that overlap, exactly one returns
\* success: two Starts of the same job have both returned Ok only if a Stop
\* took the runtime of one of them from the registry and signalled it.
C1_OneStartSucceeds ==
    \A c, d \in Callers :
        (c # d /\ StartReturnedOk(c) /\ StartReturnedOk(d)
              /\ call[c].job = call[d].job)
            => (rt[call[c].rt].signalled \/ rt[call[d].rt].signalled)

\* ==================================================================== C2
\* The loop of runtime r has been spawned, has not exited and has no shutdown
\* value waiting in its receiver.
NotCancelled(r) ==
    rt[r].pc \in {"spawned", "select", "sweep", "sleep"} /\ ~rt[r].pending

\* C2: in every reachable state at most one loop per job has not been
\* cancelled, and two loops of the same job are never both in a sweep.
C2_OneLoopPerJob ==
    \A r, q \in DOMAIN rt :
        (r # q /\ rt[r].job = rt[q].job)
            => /\ ~(NotCancelled(r) /\ NotCancelled(q))
               /\ ~(rt[r].pc = "sweep" /\ rt[q].pc = "sweep")

\* ==================================================================== C3
\* A stop_job call that got runtime r from the registry has returned Ok.
StopReturnedOk(r) ==
    \E c \in Callers :
        /\ call[c].op = "stop" /\ call[c].pc = "ret" /\ call[c].res = "ok"
        /\ call[c].rt = r

\* The start_job call that constructed r returned an error before spawning.
NeverLaunched(r) ==
    /\ r \in DOMAIN rt
    /\ rt[r].pc = "new"
    /\ \A c \in Callers : ~(call[c].pc \in {"s_insert", "s_status"} /\ call[c].rt = r)

\* The loop of r has taken the shutdown branch: is_running = false; break.
LoopEnded(r) == r \in DOMAIN rt /\ rt[r].pc = "done" /\ ~rt[r].is_running

\* C3: once Stop(jobID) has returned success, the loop of the runtime it took
\* from the registry eventually observes the cancellation, sets
\* is_running = false and exits.
C3_StopEventuallyEndsLoop ==
    \A r \in 1..MaxRuntimes :
        StopReturnedOk(r) ~>
            (NeverLaunched(r) \/ LoopEnded(r))

\* ==================================================================== C4
\* A Start of job j has returned Ok at some time (its loop was spawned), and
\* the last write of the persisted flags was the active = false of a Stop
\* that returned Ok: no Start has returned Ok since.
StoppedNotRestarted(j) ==
    /\ j \in DOMAIN dbJobs /\ ~dbJobs[j].active
    /\ \E r \in DOMAIN rt : rt[r].job = j /\ rt[r].pc # "new"

\* C4: from the return of a successful Stop(jobID) until the next successful
\* Start(jobID), Status(jobID) returns absent: for a stopped job that has not
\* been started again, get_job_status does not return the value of a registry
\* entry whose Start returned an error.
C4_StatusAbsentAfterStop ==
    [][\A c \in Callers :
          (call[c].pc = "t_lockjob" /\ call'[c].pc = "ret" /\ call'[c].res = "some")
              => ~(StoppedNotRestarted(call[c].job) /\ NeverLaunched(call[c].rt))]_vars

\* A Status call has returned a value.
C4_StatusReturnedValue ==
    \E c \in Callers : call[c].op = "status" /\ call[c].pc = "ret" /\ call[c].res = "some"

C6_FailedCallChangesNothing ==
    [][/\ \A c \in Callers :
            (/\ call'[c].pc # call[c].pc
             /\ \/ call'[c].op = "start" /\ call'[c].pc = "s_check"
                \/ /\ call'[c].op \in {"start", "stop"} /\ call'[c].pc = "ret"
                   /\ call'[c].res \in {"already_running", "not_running"})
                => UNCHANGED <<nJobs, dbJobs, dbTargets, dbStats, jobs, rt>>
       /\ (jm'.res # jm.res /\ jm'.res \in {"already_running", "not_running"})
                => jm' = [jm EXCEPT !.res = jm'.res]]_vars

\* One caller's Start has failed with already-running while the job is active
\* in the registry, and the other caller's Stop had failed with not-running.
C6_BothFailuresSeen ==
    \E c, d \in Callers :
        /\ call[c].op = "start" /\ call[c].pc = "ret" /\ call[c].res = "already_running"
        /\ call[d].op = "stop" /\ call[d].pc = "ret" /\ call[d].res = "not_running"
        /\ call[c].job \in DOMAIN jobs /\ dbJobs[call[c].job].active

\* ==================================================================== C7
\* C7: when a Start that no other call on the same job has overlapped returns
\* success, the job is in the registry with the runtime this Start
\* constructed, the persisted flags are active = true and connected = true,
\* and the loop of that runtime has been spawned with is_running = true and
\* is_connected = true and no cancellation sent to it.
C7_StartLaunchesLoop ==
    [][\A c \in Callers :
          (/\ call[c].op = "start" /\ call[c].pc = "s_status" /\ ~call[c].conc
           /\ call'[c].pc = "ret" /\ call'[c].res = "ok")
              => LET j == call[c].job
                     h == call[c].rt
                 IN /\ j \in DOMAIN jobs' /\ jobs'[j] = h
                    /\ j \in DOMAIN dbJobs' /\ dbJobs'[j].active /\ dbJobs'[j].connected
                    /\ rt'[h].pc = "spawned"
                    /\ rt'[h].is_running /\ rt'[h].is_connected
                    /\ ~rt'[h].signalled /\ ~rt'[h].pending]_vars

\* A Start has returned success while the other caller never called, and the
\* loop it spawned is in a sweep.
C7_LoopRunsAfterStart ==
    \E c \in Callers :
        /\ StartReturnedOk(c)
        /\ \A d \in Callers \ {c} : call[d] = IdleCall
        /\ call[c].job \in DOMAIN jobs /\ jobs[call[c].job] = call[c].rt
        /\ rt[call[c].rt].pc = "sweep"

\* ==================================================================== C8
\* C8: Stop(jobID) returns the not-found error exactly when jobID is not in
\* the registry at the call; when it returns success the cancellation signal
\* has been sent to the runtime that was registered, that runtime is no
\* longer in the registry (nor is jobID, unless another call on the job
\* overlapped), and the persisted flags are active = false, connected = false.
C8_StopContract ==
    [][\A c \in Callers :
          /\ (Free(c) /\ call'[c] # call[c] /\ call'[c].op = "stop")
                => IF call'[c].job \in DOMAIN jobs
                   THEN call'[c].pc = "p_lockjob" /\ call'[c].rt = jobs[call'[c].job]
                   ELSE call'[c].pc = "ret" /\ call'[c].res = "not_running"
          /\ (/\ call[c].op = "stop" /\ call[c].pc = "p_db"
              /\ call'[c].pc = "ret" /\ call'[c].res = "ok")
                => LET j == call[c].job
                       h == call[c].rt
                   IN /\ rt'[h].signalled
                      /\ \A k \in DOMAIN jobs' : jobs'[k] # h
                      /\ ~call[c].conc => j \notin DOMAIN jobs'
                      /\ j \in DOMAIN dbJobs'
                            => ~dbJobs'[j].active /\ ~dbJobs'[j].connected]_vars

\* A Stop has returned success: its runtime was signalled, the registry is
\* empty and the job row is persisted as inactive.
C8_StopDone ==
    \E c \in Callers :
        /\ call[c].op = "stop" /\ call[c].pc = "ret" /\ call[c].res = "ok"
        /\ rt[call[c].rt].signalled
        /\ DOMAIN jobs = {}
        /\ call[c].job \in DOMAIN dbJobs /\ ~dbJobs[call[c].job].active

\* ==================================================================== C9
\* C9: a Delete(jobID, owner) by the job's owner does not return, unless a
\* database statement failed, while the job's persisted records remain.
C9_DeleteRemovesRecords ==
    [][\A c \in Callers :
          (/\ call[c].op = "delete" /\ InFlight(c) /\ call'[c].pc = "ret"
           /\ call'[c].res # "db_error"
           /\ get_job_by_id(call[c].job, call[c].user))
              => /\ call[c].job \notin DOMAIN dbJobs'
                 /\ call[c].job \notin dbTargets'
                 /\ call[c].job \notin DOMAIN dbStats']_vars

\* =================================================================== C10
\* C10: when Create returns the job id, the job row is persisted with
\* active = false, its targets are persisted, its stats row has every counter
\* zero and an empty failure tracker, the job is not in the registry and no
\* runtime exists for it; no step of Create touches the registry or a
\* runtime, and a key enters the registry only by the insert of a Start.
C10_CreateDoesNotStart ==
    [][/\ \A c \in Callers :
            /\ (call'[c].op = "create" /\ call'[c] # call[c])
                  => jobs' = jobs /\ rt' = rt
            /\ (/\ call[c].op = "create" /\ call[c].pc = "c_stats"
                /\ call'[c].pc = "ret" /\ call'[c].res = "ok")
                  => LET j == call[c].job
                     IN /\ j \in DOMAIN dbJobs' /\ ~dbJobs'[j].active
                        /\ j \in dbTargets'
                        /\ j \in DOMAIN dbStats' /\ dbStats'[j] = ZeroStats
                        /\ j \notin DOMAIN jobs'
                        /\ \A r \in DOMAIN rt' : rt'[r].job # j
       /\ \A j \in DOMAIN jobs' \ DOMAIN jobs :
            \E c \in Callers :
                call[c].op = "start" /\ call[c].pc = "s_insert" /\ call[c].job = j]_vars

\* A Create has returned the job id and the job has not been started.
C10_CreatedIdle ==
    \E c \in Callers :
        /\ call[c].op = "create" /\ call[c].pc = "ret" /\ call[c].res = "ok"
        /\ call[c].job \in DOMAIN dbJobs /\ ~dbJobs[call[c].job].active
        /\ call[c].job \in dbTargets
        /\ dbStats[call[c].job] = ZeroStats
        /\ DOMAIN jobs = {} /\ rt = <<>>

\* =================================================================== C11
\* C11: for a job created with monitoringMode = Include, the seat threshold
\* stored for the job, and the one its poll cycles are given, is 0 whatever
\* threshold the request carried, on the single-user and the multi-user server.
C11_IncludeForcesZero ==
    (poll.created /\ poll.mode = "include")
        => /\ poll.stored = 0
           /\ poll.pc # "idle" => poll.thr = 0

C13_BothReadingsBeforeAction ==
    [][/\ (poll'.submits # poll.submits \/
           poll'.enrollment_attempts # poll.enrollment_attempts)
              => /\ should_attempt(poll'.s1, poll'.thr)
                 /\ should_attempt(poll'.s2, poll'.thr)
       /\ poll'.submits # poll.submits
              => poll.pc = "enroll" /\ poll'.submits = poll.submits + 1
       /\ (poll.pc = "read2" /\ poll'.pc # "found")
              => /\ poll'.submits = poll.submits
                 /\ poll'.enrollment_attempts = poll.enrollment_attempts
                 /\ poll'.pc \in {"idle", "read1"}]_vars

\* A cycle ended because the recheck did not list the section that had passed
\* the first reading: nothing was submitted or counted.
C13_RecheckMissing ==
    /\ poll.last = "recheck_missing" /\ poll.d1 /\ poll.pc = "idle"
    /\ poll.submits = 0 /\ poll.enrollment_attempts = 0

\* =================================================================== C14
\* C14: of the should_notify calls made on one day for a key that had no
\* entry, the first three return true and every later one false, whatever
\* calls for other keys come in between.
C14_FirstThreeNotify ==
    \A k \in Keys :
        /\ \A i \in 1..Len(streak[k].res) : streak[k].res[i] = (i <= 3)
        /\ streak[k].res # <<>> =>
               /\ k \in DOMAIN section_failures
               /\ section_failures[k].count =
                      IF Len(streak[k].res) <= 3 THEN Len(streak[k].res) ELSE 3

\* Five same-day failures of k1 gave true, true, true, false, false, with a
\* failure of k2 among them.
C14_FiveInARow ==
    /\ streak["k1"].res = <<TRUE, TRUE, TRUE, FALSE, FALSE>>
    /\ Len(streak["k2"].res) = 1

\* =================================================================== C15
\* C15: when the entry of a key has its last failure on a day before today,
\* the next should_notify call for the key returns true and leaves the entry
\* at count = 1 with last_failure = now, also when the count had reached 3.
C15_NewDayResets ==
    [][\A k \in Keys :
          (/\ lastcall'.n # lastcall.n
           /\ lastcall'.op = "failure" /\ lastcall'.key = k
           /\ k \in DOMAIN section_failures
           /\ section_failures[k].last_failure < today)
             => /\ lastcall'.res
                /\ section_failures'[k] = [count |-> 1, last_failure |-> today']]_vars

\* A key suppressed on an earlier day (count 3, fourth call false) has been
\* notified again on a later day and its count is 1.
C15_SuppressedThenNextDay ==
    /\ lastcall.op = "failure" /\ lastcall.res
    /\ lastcall.before.count = 3 /\ lastcall.before.last_failure < today
    /\ section_failures[lastcall.key] = [count |-> 1, last_failure |-> today]
    /\ prevcall.op = "failure" /\ prevcall.key = lastcall.key /\ ~prevcall.res

\* =================================================================== C16
\* C16: a success for a key leaves the key without an entry and the entries
\* of the other keys as they were; an entry only appears by a failure of its
\* key, and a failure of a key without an entry returns true with count = 1.
C16_SuccessClears ==
    [][\A k \in Keys :
          /\ (lastcall'.n # lastcall.n /\ lastcall'.op = "success" /\ lastcall'.key = k)
                => /\ k \notin DOMAIN section_failures'
                   /\ \A j \in Keys \ {k} :
                         EntryOf(section_failures', j) = EntryOf(section_failures, j)
          /\ (k \notin DOMAIN section_failures /\ k \in DOMAIN section_failures')
                => /\ lastcall'.n # lastcall.n
                   /\ lastcall'.op = "failure" /\ lastcall'.key = k
                   /\ lastcall'.res
                   /\ section_failures'[k].count = 1]_vars

\* A key with a suppressed count of 3 succeeded and then failed: the failure
\* was notified and counted 1, while the other key kept its entry.
C16_FailureAfterSuppressedSuccess ==
    /\ lastcall.op = "failure" /\ lastcall.res /\ lastcall.before = NoEntry
    /\ section_failures[lastcall.key].count = 1
    /\ prevcall.op = "success" /\ prevcall.key = lastcall.key
    /\ prevcall.before.count = 3
    /\ \E j \in Keys \ {lastcall.key} : j \in DOMAIN section_failures

C18_DecryptRefusesMismatch ==
    (opened.res # "none" /\ (opened.key # vault.key \/ vault.touched # "none"))
        => /\ opened.res = "err"
           /\ opened.start = "error"
           /\ ~opened.runtime

\* =================================================================== C19
\* C19: in one poll cycle monitor_section is called at most 3 times by its
\* retry wrapper, and try_enroll at most 3 times by its own, the first call
\* included.
C19_AtMostThreeAttempts ==
    /\ poll.tries <= 3
    /\ poll.builds <= 3

\* =================================================================== C20
\* C20: a loop whose sweep is in progress does not react to the shutdown
\* signal before the sweep has ended: neither a runtime's loop nor the
\* JobManager's goes from the sweep straight to its shutdown branch.
C20_SweepNotPreempted ==
    [][/\ \A r \in DOMAIN rt : ~(rt[r].pc = "sweep" /\ rt'[r].pc = "done")
       /\ ~(jm.loop = "sweep" /\ jm'.loop = "stopping")]_vars

\* =================================================================== C21
\* C21: the session-refresh tick does not abort a sweep in progress: no loop
\* goes from the middle of a sweep to the tick branch, in the runtime loop
\* (back to select!) or in the JobManager loop (into the refresh).
C21_RefreshDoesNotAbortSweep ==
    [][/\ \A r \in DOMAIN rt : ~(rt[r].pc = "sweep" /\ rt'[r].pc = "select")
       /\ ~(jm.loop = "sweep" /\ jm'.loop = "refresh")]_vars

\* =================================================================== C22
\* C22: for one job id at most one sweep is in progress at any time, over
\* all the runtimes ever built for the job.
C22_OneSweepPerJob ==
    \A r1, r2 \in DOMAIN rt :
        (rt[r1].job = rt[r2].job /\ rt[r1].pc = "sweep" /\ rt[r2].pc = "sweep")
            => r1 = r2

\* =================================================================== C23
\* C23: Stop does not wait for the loop to terminate: once stop_job has sent
\* the signal, its remaining steps (the removal when the registry lock is
\* free, the status write and the return) can be taken whatever the loop is
\* doing, and JobManager::stop can always run to its return.
C23_StopDoesNotJoin ==
    /\ \A c \in Callers :
          /\ (call[c].pc = "p_wlock" /\ CanWrite) => ENABLED StopRemove(c)
          /\ call[c].pc = "p_db" => ENABLED StopPersist(c, TRUE)
    /\ SingleUser => ENABLED JmStop

\* A stop_job has returned Ok while the loop of the runtime it signalled has
\* not taken the signal and still has is_running = true.
C23_StopReturnedLoopUnaware ==
    \E r \in DOMAIN rt :
        /\ StopReturnedOk(r)
        /\ rt[r].pending
        /\ rt[r].is_running
        /\ rt[r].pc \in {"select", "sweep", "sleep"}

\* =================================================================== C24
\* C24: the lock of a runtime's state is never held while its loop is in an
\* inter-tick sleep, after a sweep or in the disconnected idle sleep: in the
\* runtime loops of the multi-user server and in the command-line monitor.
C24_NoLockInSleep ==
    /\ \A r \in DOMAIN rt : rt[r].pc = "sleep" => JobLockFree(r)
    /\ cli.loop = "sleep" => ~cli.locked

\* =================================================================== C25
\* C25: a failure that is not transient is not retried: once a call of a
\* retry-wrapped operation has failed fatally, the cycle makes no further
\* call of it and the failure has propagated.
C25_FatalNotRetried ==
    poll.failkind = "fatal" => poll.pc = "idle"

\* =================================================================== C26
\* C26: an add_section call that fails transiently does not reach the sweep
\* as an action result of false: the cycle does not take the result = false
\* branch, which consults the failure tracker.
C26_TransientSubmitNotAResult ==
    poll.act = "error" => poll.last # "failed"

\* =================================================================== C29
\* C29: each time a retry-wrapped call of a cycle ends in a terminal error
\* the errors counter of the job's stats grows by exactly 1, and a cycle that
\* ends otherwise leaves it unchanged.
C29_TerminalErrorCounted ==
    [][(poll.pc # "idle" /\ poll'.pc = "idle")
          => poll'.errors = poll.errors + (IF poll'.last = "error" THEN 1 ELSE 0)]_vars

\* =================================================================== C30
\* C30: when a cycle is over, enrollment_attempts has been incremented in it
\* exactly if both readings confirmed the availability, and
\* successful_enrollments exactly if add_section returned true.
C30_CountersFollowOutcomes ==
    poll.pc = "idle" =>
        /\ poll.counted <=> (poll.d1 /\ poll.d2)
        /\ poll.credited <=> (poll.act = "true")

\* =================================================================== C27
\* C27: a success sends exactly one success notification and leaves the key
\* without tracker entry; a failure (result false) sends one failure
\* notification when should_notify_for_section returns true for the key and
\* none when it returns false.
C27_NotifyFollowsThrottle ==
    [][lastcall'.n # lastcall.n =>
          /\ lastcall'.op = "success" =>
                /\ lastcall'.sent = <<"success">>
                /\ lastcall'.key \notin DOMAIN section_failures'
          /\ lastcall'.op = "failure" =>
                /\ lastcall'.res =
                      should_notify_for_section(section_failures, lastcall'.key, today).res
                /\ lastcall'.sent = IF lastcall'.res THEN <<"failure">> ELSE <<>>]_vars

\* A failure was notified and the next failure of the same key was not.
C27_SuppressedFailureSilent ==
    /\ lastcall.op = "failure" /\ ~lastcall.res /\ lastcall.sent = <<>>
    /\ prevcall.op = "failure" /\ prevcall.key = lastcall.key
    /\ prevcall.sent = <<"failure">>

\* =================================================================== C28
\* C28: every entry of the failure tracker has 1 <= count <= 3 in every
\* reachable state, and a suppressed call (result false) finds count = 3 and
\* leaves count and last_failure as they were.
C28_CountWithinCap ==
    /\ \A k \in DOMAIN section_failures :
          /\ section_failures[k].count \in 1..3
          /\ section_failures[k].last_failure \in 0..today
    /\ (lastcall.op = "failure" /\ ~lastcall.res)
          => /\ lastcall.before.count = 3
             /\ section_failures[lastcall.key] = lastcall.before

\* After a day rollover a key was suppressed again at count 3 while the other
\* key holds a lower count.
C28_SuppressedAtCap ==
    /\ today > 0
    /\ lastcall.op = "failure" /\ ~lastcall.res
    /\ section_failures[lastcall.key] = [count |-> 3, last_failure |-> today]
    /\ \E j \in DOMAIN section_failures : section_failures[j].count < 3

\* =================================================================== C31
\* C31: while the connected flag of a loop's state is false, no step of the
\* loop enters a sweep, calls monitor_section_with_retry or changes the
\* stats (a poll trigger goes to the idle sleep and back); and the flag goes
\* from false to true only in a refresh_cookie whose check found the session
\* valid.  A UserJob's flag, which no code writes, never changes.
C31_DisconnectedDoesNotPoll ==
    [][/\ (jm.built /\ ~jm.is_connected)
             => /\ jm'.loop # "sweep"
                /\ jm'.polls = jm.polls
                /\ jm'.enrollment_attempts = jm.enrollment_attempts
                /\ jm.loop = "select" => jm'.loop \in {"select", "sleep", "refresh", "stopping"}
       /\ (cli.built /\ ~cli.is_connected)
             => /\ cli'.loop # "sweep"
                /\ cli'.polls = cli.polls
                /\ cli'.enrollment_attempts = cli.enrollment_attempts
                /\ cli.loop = "select" => cli'.loop \in {"select", "sleep", "refresh", "done"}
       /\ (~jm.is_connected /\ jm'.is_connected)
             => jm.loop = "refresh" /\ jm'.checked = "valid"
       /\ (~cli.is_connected /\ cli'.is_connected)
             => cli.loop = "refresh" /\ cli'.checked = "valid"
       /\ \A r \in DOMAIN rt : rt'[r].is_connected = rt[r].is_connected]_vars

\* The JobManager loop, which had polled a target, found the session invalid
\* and is in the idle sleep of a poll trigger.
C31_IdleWhileDisconnected ==
    /\ jm.built /\ ~jm.is_connected /\ jm.checked = "invalid"
    /\ jm.loop = "sleep" /\ jm.polls = 1

\* =================================================================== C32
\* C32: over the refresh_cookie checks of a loop, a cookie-expired
\* notification is sent exactly when the connected flag goes from true to
\* false: a check that finds the session invalid while the flag is already
\* false sends none and leaves it false, a check that finds it valid sends
\* none and leaves the flag true, and no check stops the loop or changes
\* is_running.
C32_OneNoticePerExpiry ==
    [][/\ jm'.notices =
             jm.notices + (IF jm.is_connected /\ ~jm'.is_connected THEN 1 ELSE 0)
       /\ cli'.notices =
             cli.notices + (IF cli.is_connected /\ ~cli'.is_connected THEN 1 ELSE 0)
       /\ jm'.refreshes # jm.refreshes
             => /\ jm'.is_connected = (jm'.checked = "valid")
                /\ jm'.is_running = jm.is_running /\ jm'.loop = "select"
                /\ jm'.pending = jm.pending
       /\ cli'.refreshes # cli.refreshes
             => /\ cli'.is_connected = (cli'.checked = "valid")
                /\ cli'.loop = "select" /\ cli'.pending = cli.pending]_vars

\* Two checks in a row found the session invalid: one notification was sent
\* and the JobManager loop is still running, in its idle sleep.
C32_ExpiredOnceCheckedTwice ==
    /\ jm.built /\ jm.is_running /\ jm.loop = "sleep"
    /\ jm.refreshes = 2 /\ jm.checked = "invalid" /\ ~jm.is_connected
    /\ jm.notices = 1 /\ jm.polls = 0

\* =================================================================== C33
\* C33: a terminal error of monitor_section_with_retry or of
\* try_enroll_with_retry for one target ends only that target's cycle: the
\* sweep goes on to the next target with the counters as they were, a sweep
\* never ends because of an error, it completes only after every target has
\* been polled, and the next sweep starts again from the first target.
C33_ErrorEndsOnlyItsTarget ==
    [][/\ sweep'.polled = Append(sweep.polled, "err")
             => /\ sweep'.i = sweep.i + 1 /\ sweep'.pc = "monitor"
                /\ sweep'.enrollment_attempts = sweep.enrollment_attempts
                /\ sweep'.successful_enrollments = sweep.successful_enrollments
       /\ (sweep.pc = "enroll" /\ sweep'.pc # "enroll" /\ sweep'.ended # "dropped")
             => sweep'.i = sweep.i + 1 /\ sweep'.pc = "monitor"
       /\ (sweep.i # 0 /\ sweep'.i = 0)
             => sweep'.ended \in {"complete", "dropped"}
       /\ sweep'.total_checks # sweep.total_checks
             => /\ Len(sweep.polled) = MaxTargets
                /\ sweep'.total_checks = sweep.total_checks + 1
       /\ (sweep.i = 0 /\ sweep'.i # 0)
             => sweep'.i = 1 /\ sweep'.polled = <<>> /\ sweep'.pc = "monitor"]_vars

\* A sweep whose first target ended in a terminal error has polled the two
\* targets after it and completed.
C33_ErrorThenRestPolled ==
    /\ sweep.ended = "complete" /\ sweep.failed
    /\ Len(sweep.polled) = 3 /\ sweep.polled[1] = "err" /\ sweep.polled[2] = "some"
    /\ sweep.total_checks = 1

\* =================================================================== C34
\* C34: no step of a Delete(jobID, owner) whose owner does not own the
\* persisted job changes anything of that job: the registry, the runtimes
\* with their cancellation signals, and the persisted rows and flags stay as
\* they were.
C34_ForeignDeleteChangesNothing ==
    [][\A c \in Callers :
          (/\ call[c].op = "delete" /\ InFlight(c)
           /\ call'[c].pc # call[c].pc
           /\ call[c].job \in DOMAIN dbJobs
           /\ dbJobs[call[c].job].owner # call[c].user)
              => /\ jobs' = jobs /\ rt' = rt
                 /\ dbJobs' = dbJobs /\ dbTargets' = dbTargets
                 /\ dbStats' = dbStats]_vars

\* =================================================================== C35
\* C35: a Start that returns an error leaves no entry of its own in the
\* registry: the registry never holds a runtime whose start_job has returned
\* without spawning its loop.
C35_NoEntryWithoutLoop ==
    \A j \in DOMAIN jobs : ~NeverLaunched(jobs[j])

\* =================================================================== C36
\* C36: whenever no Start, Stop or Delete call is in progress, the persisted
\* active flag of every job row is true exactly if the job is in the
\* registry.
C36_ActiveIffRegistered ==
    (\A c \in Callers : InFlight(c) => call[c].op \notin {"start", "stop", "delete"})
        => \A j \in DOMAIN dbJobs : dbJobs[j].active <=> j \in DOMAIN jobs

\* ======================================================= two jobs at once
\* Two jobs that create_job has persisted for one tenant, neither started.
PairJobs == {1, 2}

PairInit ==
    /\ nJobs = 2
    /\ dbJobs = [j \in PairJobs |-> NewJobRow("u1")]
    /\ dbTargets = PairJobs
    /\ dbStats = [j \in PairJobs |-> ZeroStats]
    /\ jobs = [j \in {} |-> 0]
    /\ rt = <<>>
    /\ call = [c \in Callers |-> IdleCall]
    /\ jm = NoManager
    /\ cli = NoCli
    /\ poll = NoPoll
    /\ TrackerNew
    /\ VaultNew
    /\ sweep = NoSweep

\* The job that each client works on.
JobOf(c) == IF c = "c1" THEN 1 ELSE 2

\* The clients that issue DELETE /jobs/:id (the owner of job 1).
Deleters == {"c1"}

\* The registry calls of two clients, each on its own job, with a database
\* that answers, and the loops of the runtimes. Both clients start, stop and
\* read the status of their job; the first one also deletes its job.
PairNext ==
    \/ \E c \in Callers : StartGet(c, JobOf(c), "u1")
    \/ \E c \in Callers : StartCheck(c)
    \/ \E c \in Callers : StartLoad(c, TRUE)
    \/ \E c \in Callers : StartInsert(c)
    \/ \E c \in Callers : StartActivate(c, TRUE)
    \/ \E c \in Callers : StopGet(c, JobOf(c))
    \/ \E c \in Callers : StopSignal(c)
    \/ \E c \in Callers : StopRemove(c)
    \/ \E c \in Callers : StopPersist(c, TRUE)
    \/ \E c \in Callers : StatusGet(c, JobOf(c))
    \/ \E c \in Callers : StatusRead(c)
    \/ \E c \in Deleters : DeleteCheck(c, JobOf(c), "u1")
    \/ \E c \in Deleters : DeleteStop(c)
    \/ \E c \in Deleters : DeleteRows(c, TRUE)
    \/ \E r \in DOMAIN rt : LoopStep(r)

PairSpec == PairInit /\ [][PairNext]_vars

\* =================================================================== C37
\* Caller c is suspended in jobs.write().await.
AwaitsWrite(c) == call[c].pc \in {"s_insert", "p_wlock"}

\* Caller d holds the registry's read guard while it waits for the mutex of
\* a runtime whose loop is in a sweep.
HeldThroughSweep(d) == ReadHeld(d) /\ ~JobLockFree(call[d].rt)

\* C37: a registry operation on one job never waits for the sweep of another
\* job to end: a call on job B is never kept from the registry lock by a
\* guard whose holder, a Status or Stop of job A, is waiting for A's sweep.
C37_NoWaitOnOtherJobsSweep ==
    \A c, d \in Callers :
        (c # d /\ AwaitsWrite(c) /\ call[d].job # call[c].job)
            => ~HeldThroughSweep(d)

\* The steps of a registry call that client c has already entered, with a
\* database that answers.
PairStep(c) ==
    \/ StartCheck(c)
    \/ StartLoad(c, TRUE)
    \/ StartInsert(c)
    \/ StartActivate(c, TRUE)
    \/ StopSignal(c)
    \/ StopRemove(c)
    \/ StopPersist(c, TRUE)
    \/ StatusRead(c)
    \/ DeleteStop(c)
    \/ DeleteRows(c, TRUE)

\* The sweep of runtime r ends, and its sleep ends.
LoopProgress(r) ==
    \/ \E ok \in BOOLEAN : LoopEndSweep(r, ok)
    \/ LoopWake(r)

\* tokio's Mutex and RwLock hand the lock to their waiters in FIFO order, so
\* a call that waits for a lock gets it once its holders have released it;
\* the database and WebReg answer, so the awaits of a call and of a sweep
\* complete, and a sleep ends.
PairFairSpec ==
    /\ PairInit
    /\ [][PairNext]_vars
    /\ \A c \in Callers : SF_vars(PairStep(c))
    /\ \A r \in 1..MaxRuntimes : WF_vars(r \in DOMAIN rt /\ LoopProgress(r))

\* =================================================================== C38
\* C38: the registry lock and the runtime locks never deadlock: every
\* registry call that has been entered eventually returns, and every loop
\* that is in a sweep or a sleep eventually comes back to its select! (or
\* has exited).
C38_NoLockDeadlock ==
    /\ \A c \in Callers : InFlight(c) ~> Free(c)
    /\ \A r \in 1..MaxRuntimes :
          (r \in DOMAIN rt /\ rt[r].pc \in {"sweep", "sleep"})
              ~> (r \in DOMAIN rt /\ rt[r].pc \in {"select", "done"})

\* A call on one job waits for the registry's write lock while a call on the
\* other job holds the read guard and waits for the mutex of a runtime in a
\* sweep, and that second runtime's loop is alive.
C38_LocksContended ==
    \E c, d \in Callers :
        /\ c # d /\ AwaitsWrite(c) /\ HeldThroughSweep(d)
        /\ Len(rt) = 2

\* =================================================================== C39
\* C39: a cycle hands exactly one found-opening notification to the
\* notifier when both of its readings confirm the availability and none
\* otherwise; add_section is called only after that notification; and the
\* notification neither depends on nor changes the failure tracker.
C39_OneFoundNoticePerConfirmation ==
    [][/\ poll'.notified = IF poll'.d1 /\ poll'.d2 THEN 1 ELSE 0
       /\ poll'.submits # poll.submits => poll.notified = 1
       /\ poll'.notified # poll.notified
             => section_failures' = section_failures]_vars

\* A cycle of a target whose failure notifications are suppressed today has
\* sent the found-opening notification and is about to call add_section.
C39_NotifiedWhileSuppressed ==
    /\ poll.pc = "enroll" /\ poll.notified = 1 /\ poll.builds = 0
    /\ ~should_notify_for_section(section_failures, PolledKey, today).res

\* =================================================================== C40
\* C40: in every state of a runtime successful_enrollments is at most
\* enrollment_attempts, and no step decreases either counter, the steps in
\* which select! drops a sweep in the middle of a cycle included.
C40_SuccessesWithinAttempts ==
    [][/\ poll'.successful_enrollments <= poll'.enrollment_attempts
       /\ poll'.enrollment_attempts >= poll.enrollment_attempts
       /\ poll'.successful_enrollments >= poll.successful_enrollments]_vars

\* After a cycle that was counted and credited, a second cycle was counted,
\* its add_section returned true, and the sweep was dropped before the
\* success was credited.
C40_CutShortAfterSubmit ==
    /\ poll.pc = "idle" /\ poll.dropped /\ poll.counted
    /\ poll.act = "true" /\ ~poll.credited
    /\ poll.successful_enrollments = 1 /\ poll.enrollment_attempts = 2

====
